---- MODULE Spec2Model ----
(***************************************************************************)
(* Model of floral_arrangement_mcp/server.py: the taxonomy tables, the     *)
(* detectors, the structure mapper, the prompt formatter and the ComfyUI   *)
(* workflow builder.  Python str values are TLA+ strings; a Python dict    *)
(* whose iteration order the code relies on is a sequence of items         *)
(* [k |-> key, v |-> value] in the order of the dict literal; a leaf dict  *)
(* is a record; a Python list is a sequence.                               *)
(***************************************************************************)
EXTENDS Integers, Sequences, FiniteSets, TLC

\* op: the function being called; args: its arguments; locals: the local
\* variables of the call in progress; result: what the call returned or raised
VARIABLES op, args, locals, result

vars == <<op, args, locals, result>>

(***************************************************************************)
(* Taxonomy tables (server.py, LAYER 1)                                    *)
(***************************************************************************)

\* category -> type -> style entry, in the source order of the dict literal
ARRANGEMENT_STYLES ==
  <<
    [k |-> "ikebana", v |-> <<
      [k |-> "moribana", v |-> [
         description |-> "Low bowl arrangement, naturalistic landscape",
         container |-> "shallow bowl, suiban",
         characteristics |-> "horizontal emphasis, nature scenery, kenzan pin holder",
         balance |-> "asymmetrical",
         complexity |-> "high"
      ]],
      [k |-> "nageire", v |-> [
         description |-> "Tall vase arrangement, flowing asymmetrical",
         container |-> "tall cylindrical vase",
         characteristics |-> "natural grace, no mechanics visible, stem supports stem",
         balance |-> "asymmetrical",
         complexity |-> "medium"
      ]],
      [k |-> "rikka", v |-> [
         description |-> "Formal standing flowers, classical seven-branch",
         container |-> "bronze or ceramic vase",
         characteristics |-> "symbolic cosmic mountain, rigid structure, ceremonial",
         balance |-> "symmetrical",
         complexity |-> "very high"
      ]]
    >>],
    [k |-> "western_classical", v |-> <<
      [k |-> "cascade", v |-> [
         description |-> "Waterfall flow with trailing elements",
         container |-> "elevated pedestal vase or urn",
         characteristics |-> "dramatic downward movement, trailing vines, 1.5x container height drop",
         balance |-> "asymmetrical",
         complexity |-> "high"
      ]],
      [k |-> "crescent", v |-> [
         description |-> "Curved asymmetrical arc, moon-shaped",
         container |-> "low bowl or compote",
         characteristics |-> "graceful curve, negative space emphasis, 60-degree arc",
         balance |-> "asymmetrical",
         complexity |-> "medium"
      ]],
      [k |-> "hogarth", v |-> [
         description |-> "S-curve, line of beauty",
         container |-> "pedestal vase or urn",
         characteristics |-> "flowing S-shape, dynamic movement, elegant proportion",
         balance |-> "asymmetrical",
         complexity |-> "high"
      ]],
      [k |-> "dome", v |-> [
         description |-> "Rounded symmetrical mass",
         container |-> "low bowl, vase, or compote",
         characteristics |-> "equal dimensions all sides, full 360-degree viewing, dense",
         balance |-> "radial symmetrical",
         complexity |-> "low"
      ]],
      [k |-> "triangular", v |-> [
         description |-> "Stable pyramid form",
         container |-> "any stable base",
         characteristics |-> "wide base tapering to point, classical proportion, formal",
         balance |-> "symmetrical",
         complexity |-> "low"
      ]],
      [k |-> "vertical", v |-> [
         description |-> "Tall upright emphasis",
         container |-> "tall narrow vase",
         characteristics |-> "height 2-3x container, upward movement, line flowers dominant",
         balance |-> "symmetrical or asymmetrical",
         complexity |-> "low"
      ]],
      [k |-> "horizontal", v |-> [
         description |-> "Low spreading centerpiece",
         container |-> "long low container or candelabra",
         characteristics |-> "width 3x height, table centerpiece, conversation-friendly",
         balance |-> "symmetrical",
         complexity |-> "medium"
      ]]
    >>],
    [k |-> "contemporary", v |-> <<
      [k |-> "minimalist", v |-> [
         description |-> "Few stems, negative space emphasis",
         container |-> "simple geometric vessel",
         characteristics |-> "3-7 stems maximum, sculptural form, breathing space",
         balance |-> "asymmetrical",
         complexity |-> "medium"
      ]],
      [k |-> "structural", v |-> [
         description |-> "Architectural, geometric forms",
         container |-> "modern cube, cylinder, or asymmetric",
         characteristics |-> "bold lines, repetition, graphic shapes, non-traditional materials",
         balance |-> "often asymmetrical",
         complexity |-> "high"
      ]],
      [k |-> "garden_style", v |-> [
         description |-> "Loose, natural, abundant",
         container |-> "rustic basket, vintage vessel",
         characteristics |-> "just-picked feel, varied textures, romantic fullness, organic",
         balance |-> "asymmetrical",
         complexity |-> "medium"
      ]],
      [k |-> "parallel", v |-> [
         description |-> "Stems grouped in vertical lines",
         container |-> "rectangular or cylindrical",
         characteristics |-> "stems visible through glass, grouped bundles, modern clean",
         balance |-> "symmetrical or asymmetrical",
         complexity |-> "low"
      ]]
    >>]
  >>

\* role -> flower name -> flower data, in source order
FLOWERS_BY_ROLE ==
  <<
    [k |-> "focal", v |-> <<
      [k |-> "roses", v |-> [
         types |-> <<"garden roses", "spray roses", "hybrid tea", "English roses">>,
         characteristics |-> "classic beauty, layered petals, focal point dominance",
         color_range |-> "full spectrum",
         size |-> "large 3-5 inches",
         seasons |-> <<"spring", "summer", "fall">>,
         symbolism |-> "love, romance, elegance"
      ]],
      [k |-> "peonies", v |-> [
         types |-> <<"herbaceous", "tree peony", "Itoh hybrid">>,
         characteristics |-> "lush ruffled petals, full bloom drama, short season",
         color_range |-> "white, pink, coral, burgundy",
         size |-> "very large 4-6 inches",
         seasons |-> <<"late spring", "early summer">>,
         symbolism |-> "prosperity, honor, romance"
      ]],
      [k |-> "lilies", v |-> [
         types |-> <<"oriental", "asiatic", "calla", "trumpet">>,
         characteristics |-> "dramatic form, strong fragrance (oriental), architectural",
         color_range |-> "full spectrum",
         size |-> "large 4-6 inches per bloom",
         seasons |-> <<"summer", "fall">>,
         symbolism |-> "purity, majesty, sophistication"
      ]],
      [k |-> "orchids", v |-> [
         types |-> <<"phalaenopsis", "cymbidium", "dendrobium", "vanda">>,
         characteristics |-> "exotic elegance, long-lasting, tropical",
         color_range |-> "white, pink, purple, yellow, green",
         size |-> "medium 2-4 inches",
         seasons |-> <<"year-round">>,
         symbolism |-> "luxury, refinement, beauty"
      ]],
      [k |-> "hydrangeas", v |-> [
         types |-> <<"mophead", "lacecap", "paniculata", "oakleaf">>,
         characteristics |-> "full mass, color-changing, garden feel",
         color_range |-> "blue, pink, white, green, purple",
         size |-> "very large 6-8 inch heads",
         seasons |-> <<"summer", "fall">>,
         symbolism |-> "gratitude, abundance, heartfelt emotion"
      ]],
      [k |-> "sunflowers", v |-> [
         types |-> <<"giant", "teddy bear", "moulin rouge", "autumn beauty">>,
         characteristics |-> "bold face, cheerful, rustic charm",
         color_range |-> "yellow, orange, burgundy, bronze",
         size |-> "large 4-10 inches",
         seasons |-> <<"summer", "fall">>,
         symbolism |-> "happiness, loyalty, longevity"
      ]],
      [k |-> "dahlias", v |-> [
         types |-> <<"dinner plate", "cactus", "pompon", "decorative">>,
         characteristics |-> "geometric petals, bold color, garden luxury",
         color_range |-> "full spectrum except blue",
         size |-> "small to very large 2-10 inches",
         seasons |-> <<"late summer", "fall">>,
         symbolism |-> "elegance, dignity, commitment"
      ]]
    >>],
    [k |-> "line", v |-> <<
      [k |-> "snapdragons", v |-> [
         characteristics |-> "vertical spikes, graduated blooms, height emphasis",
         color_range |-> "full spectrum",
         height |-> "18-36 inches",
         use |-> "creates vertical movement and height"
      ]],
      [k |-> "delphiniums", v |-> [
         characteristics |-> "tall elegant columns, cottage garden feel",
         color_range |-> "blue, purple, pink, white",
         height |-> "24-48 inches",
         use |-> "dramatic height, romantic spires"
      ]],
      [k |-> "gladiolus", v |-> [
         characteristics |-> "sword-like stems, formal linear",
         color_range |-> "full spectrum",
         height |-> "24-60 inches",
         use |-> "strong vertical lines, classical elegance"
      ]],
      [k |-> "liatris", v |-> [
         characteristics |-> "fuzzy textured spikes, blooms top-down",
         color_range |-> "purple, white",
         height |-> "18-36 inches",
         use |-> "unique texture, prairie wildflower feel"
      ]],
      [k |-> "bells_of_ireland", v |-> [
         characteristics |-> "green architectural spires, shell-like calyxes",
         color_range |-> "lime green",
         height |-> "24-36 inches",
         use |-> "fresh green accent, Irish symbolism"
      ]],
      [k |-> "stock", v |-> [
         characteristics |-> "fragrant vertical clusters, cottage garden",
         color_range |-> "white, pink, purple, lavender",
         height |-> "18-30 inches",
         use |-> "fragrance, soft spires, romantic"
      ]]
    >>],
    [k |-> "filler", v |-> <<
      [k |-> "baby_breath", v |-> [
         characteristics |-> "cloud-like delicate, tiny white blooms",
         use |-> "softens arrangements, creates airiness, classic filler",
         texture |-> "fine, misty"
      ]],
      [k |-> "waxflower", v |-> [
         characteristics |-> "tiny clustered blooms, long-lasting, waxy texture",
         color_range |-> "white, pink, purple",
         use |-> "elegant filler, wedding favorite"
      ]],
      [k |-> "statice", v |-> [
         characteristics |-> "papery textured, long-lasting, dried feel",
         color_range |-> "purple, white, yellow, pink",
         use |-> "texture contrast, everlasting quality"
      ]],
      [k |-> "solidago", v |-> [
         characteristics |-> "golden plumes, wild meadow feel",
         color_range |-> "yellow, gold",
         use |-> "fall arrangements, cheerful accent"
      ]],
      [k |-> "alstroemeria", v |-> [
         characteristics |-> "small lily-like, long vase life, multiple blooms",
         color_range |-> "full spectrum",
         use |-> "versatile filler, budget-friendly"
      ]],
      [k |-> "hypericum", v |-> [
         characteristics |-> "berry-like, unique texture",
         color_range |-> "red, burgundy, white, green",
         use |-> "adds interest, festive accent"
      ]]
    >>],
    [k |-> "texture", v |-> <<
      [k |-> "thistle", v |-> [
         characteristics |-> "spiky, architectural, edgy",
         color_range |-> "purple, blue, white",
         use |-> "modern edge, texture contrast"
      ]],
      [k |-> "protea", v |-> [
         characteristics |-> "bold sculptural, exotic",
         color_range |-> "pink, coral, cream",
         use |-> "focal drama, tropical luxury"
      ]],
      [k |-> "scabiosa", v |-> [
         characteristics |-> "pincushion center, whimsical",
         color_range |-> "deep burgundy, purple, white",
         use |-> "unique texture, romantic gardens"
      ]],
      [k |-> "ranunculus", v |-> [
         characteristics |-> "layered tissue-paper petals, romantic",
         color_range |-> "full spectrum",
         use |-> "texture richness, elegant beauty"
      ]]
    >>]
  >>

\* category -> foliage name -> foliage data, in source order
FOLIAGE_TYPES ==
  <<
    [k |-> "structural", v |-> <<
      [k |-> "ferns", v |-> [
         types |-> <<"leather fern", "tree fern", "sword fern">>,
         characteristics |-> "feathery fronds, classical backdrop",
         use |-> "traditional base, soft texture"
      ]],
      [k |-> "eucalyptus", v |-> [
         types |-> <<"seeded", "silver dollar", "baby blue">>,
         characteristics |-> "silvery-blue leaves, aromatic, trendy",
         use |-> "modern texture, color accent, fragrance"
      ]],
      [k |-> "ruscus", v |-> [
         characteristics |-> "glossy pointed leaves, sturdy stems",
         use |-> "foundation greenery, long-lasting"
      ]],
      [k |-> "salal", v |-> [
         characteristics |-> "rounded glossy leaves, pacific northwest",
         use |-> "backdrop greenery, filler"
      ]]
    >>],
    [k |-> "accent", v |-> <<
      [k |-> "ivy", v |-> [
         types |-> <<"English ivy", "variegated ivy">>,
         characteristics |-> "trailing vines, romantic drape",
         use |-> "softens edges, cascading effect"
      ]],
      [k |-> "pittosporum", v |-> [
         characteristics |-> "small rounded leaves, delicate sprays",
         use |-> "airy filler, soft texture"
      ]],
      [k |-> "dusty_miller", v |-> [
         characteristics |-> "silvery fuzzy leaves, soft focus",
         use |-> "color contrast, romantic softness"
      ]],
      [k |-> "olive_branches", v |-> [
         characteristics |-> "silvery-green, Mediterranean, symbolic",
         use |-> "rustic elegance, peace symbolism"
      ]]
    >>],
    [k |-> "dramatic", v |-> <<
      [k |-> "monstera", v |-> [
         characteristics |-> "large split leaves, tropical bold",
         use |-> "modern drama, tropical theme"
      ]],
      [k |-> "palm", v |-> [
         types |-> <<"fan palm", "phoenix palm">>,
         characteristics |-> "architectural fronds, tropical",
         use |-> "bold statement, event decor"
      ]],
      [k |-> "aspidistra", v |-> [
         characteristics |-> "large blade leaves, manipulable",
         use |-> "wraps, structural elements"
      ]]
    >>]
  >>

\* palette name -> palette data, in source order
COLOR_PALETTES ==
  <<
    [k |-> "monochromatic", v |-> [
       description |-> "Single color in varying shades and tints",
       examples |-> <<"all white", "blush to deep pink", "cream to chocolate">>,
       effect |-> "sophisticated, cohesive, elegant",
       occasions |-> <<"wedding", "formal", "minimalist">>
    ]],
    [k |-> "analogous", v |-> [
       description |-> "Colors adjacent on color wheel",
       examples |-> <<"yellow-orange-red", "blue-purple-violet", "yellow-green-blue">>,
       effect |-> "harmonious, natural, pleasing",
       occasions |-> <<"everyday", "celebration", "garden-style">>
    ]],
    [k |-> "complementary", v |-> [
       description |-> "Opposite colors on wheel",
       examples |-> <<"purple-yellow", "blue-orange", "red-green">>,
       effect |-> "vibrant, energetic, bold contrast",
       occasions |-> <<"celebration", "modern", "attention-grabbing">>
    ]],
    [k |-> "triadic", v |-> [
       description |-> "Three colors evenly spaced on wheel",
       examples |-> <<"red-yellow-blue", "orange-green-purple">>,
       effect |-> "vibrant, balanced, rich",
       occasions |-> <<"festive", "children", "joyful">>
    ]],
    [k |-> "romantic", v |-> [
       colors |-> <<"blush pink", "cream", "soft peach", "ivory", "champagne">>,
       effect |-> "soft, dreamy, feminine, gentle",
       occasions |-> <<"wedding", "bridal shower", "anniversary">>
    ]],
    [k |-> "elegant", v |-> [
       colors |-> <<"deep burgundy", "cream", "forest green", "white", "gold accent">>,
       effect |-> "sophisticated, refined, formal",
       occasions |-> <<"gala", "formal dinner", "luxury events">>
    ]],
    [k |-> "vibrant", v |-> [
       colors |-> <<"magenta", "orange", "hot pink", "yellow", "coral">>,
       effect |-> "energetic, joyful, bold",
       occasions |-> <<"birthday", "tropical", "celebration">>
    ]],
    [k |-> "spring", v |-> [
       colors |-> <<"tulip yellow", "daffodil", "lavender", "soft pink", "fresh green">>,
       effect |-> "fresh, renewal, optimistic",
       seasons |-> <<"spring">>,
       occasions |-> <<"easter", "spring wedding">>
    ]],
    [k |-> "summer", v |-> [
       colors |-> <<"bright yellow", "coral", "hot pink", "orange", "lime green">>,
       effect |-> "warm, abundant, lively",
       seasons |-> <<"summer">>,
       occasions |-> <<"garden party", "outdoor celebration">>
    ]],
    [k |-> "autumn", v |-> [
       colors |-> <<"rust orange", "burgundy", "golden yellow", "bronze", "deep red">>,
       effect |-> "warm, rich, harvest",
       seasons |-> <<"fall">>,
       occasions |-> <<"thanksgiving", "fall wedding">>
    ]],
    [k |-> "winter", v |-> [
       colors |-> <<"deep red", "white", "evergreen", "silver", "navy">>,
       effect |-> "crisp, festive, elegant",
       seasons |-> <<"winter">>,
       occasions |-> <<"christmas", "winter formal">>
    ]]
  >>

\* technique family -> technique name -> technique data
STRUCTURAL_TECHNIQUES ==
  <<
    [k |-> "balance", v |-> <<
      [k |-> "symmetrical_radial", v |-> [
         description |-> "Equal visual weight radiating from center",
         arrangements |-> <<"dome", "round", "triangular">>,
         effect |-> "formal, stable, traditional"
      ]],
      [k |-> "symmetrical_bilateral", v |-> [
         description |-> "Mirror image left and right",
         arrangements |-> <<"triangular", "vertical", "fan">>,
         effect |-> "formal, classical, orderly"
      ]],
      [k |-> "asymmetrical", v |-> [
         description |-> "Unequal but balanced visual weight",
         arrangements |-> <<"crescent", "hogarth", "ikebana">>,
         effect |-> "dynamic, natural, contemporary"
      ]]
    >>],
    [k |-> "proportion", v |-> <<
      [k |-> "golden_ratio", v |-> [
         description |-> "1.618:1 ratio between elements",
         application |-> "height to width, focal to filler, container to arrangement"
      ]],
      [k |-> "rule_of_thirds", v |-> [
         description |-> "Divide into thirds horizontally and vertically",
         application |-> "place focal points at intersections"
      ]],
      [k |-> "height_to_container", v |-> [
         traditional |-> "1.5 to 2 times container height",
         modern |-> "can break rules for dramatic effect",
         horizontal |-> "container height to arrangement width 1:3"
      ]]
    >>],
    [k |-> "focal_points", v |-> <<
      [k |-> "single_dominant", v |-> [
         description |-> "One clear center of interest",
         technique |-> "largest bloom at center or asymmetric position",
         effect |-> "clear hierarchy, classical"
      ]],
      [k |-> "multiple_secondary", v |-> [
         description |-> "Primary focal with supporting accents",
         technique |-> "triangle of focal flowers",
         effect |-> "visual journey, sophisticated"
      ]],
      [k |-> "distributed", v |-> [
         description |-> "Interest spread throughout",
         technique |-> "no single dominant element",
         effect |-> "garden-style, natural"
      ]]
    >>],
    [k |-> "movement", v |-> <<
      [k |-> "vertical_lift", v |-> [
         description |-> "Upward reaching energy",
         technique |-> "line flowers, tall stems, upright forms",
         effect |-> "aspiration, celebration, growth"
      ]],
      [k |-> "horizontal_sweep", v |-> [
         description |-> "Side-to-side flow",
         technique |-> "trailing elements, lateral branches",
         effect |-> "calm, peaceful, grounding"
      ]],
      [k |-> "spiral_rotation", v |-> [
         description |-> "Circular flow around center",
         technique |-> "stems arranged in spiral, flowers face different directions",
         effect |-> "dynamic, natural, garden-style"
      ]],
      [k |-> "cascade_fall", v |-> [
         description |-> "Downward waterfall motion",
         technique |-> "trailing ivy, hanging amaranthus, weighted bottom",
         effect |-> "drama, elegance, gravity"
      ]],
      [k |-> "radiation", v |-> [
         description |-> "Outward burst from center",
         technique |-> "stems angle out from central point",
         effect |-> "energy, explosion, celebration"
      ]]
    >>],
    [k |-> "texture", v |-> <<
      [k |-> "smooth_rough_contrast", v |-> [
         description |-> "Juxtapose sleek and textured elements",
         examples |-> "glossy calla lilies with spiky thistle",
         effect |-> "visual interest, sophisticated"
      ]],
      [k |-> "delicate_bold_mix", v |-> [
         description |-> "Combine fine and substantial forms",
         examples |-> "baby's breath with large roses",
         effect |-> "balance, dimension"
      ]],
      [k |-> "monochromatic_texture", v |-> [
         description |-> "Same color, varied textures",
         examples |-> "white roses, ranunculus, stock, baby's breath",
         effect |-> "subtle sophistication, cohesive"
      ]]
    >>],
    [k |-> "density", v |-> <<
      [k |-> "packed_abundant", v |-> [
         description |-> "Full mass, minimal negative space",
         style |-> "European garden, romantic",
         effect |-> "lush, generous, romantic"
      ]],
      [k |-> "airy_spacious", v |-> [
         description |-> "Minimal stems, maximum negative space",
         style |-> "Ikebana, contemporary minimalist",
         effect |-> "elegant, modern, sculptural"
      ]],
      [k |-> "clustered_with_voids", v |-> [
         description |-> "Dense groupings separated by open space",
         style |-> "Contemporary, structural",
         effect |-> "drama, graphic, intentional"
      ]]
    >>]
  >>

\* occasion -> sub-context -> fields.  Every level carries its Python type
\* (dict, list, str) and keeps its order, because map_occasion searches
\* str(value) and the callers receive the sub-tables themselves
OCCASIONS ==
  [t |-> "dict", d |-> <<
    [k |-> "wedding", v |-> [t |-> "dict", d |-> <<
      [k |-> "ceremony", v |-> [t |-> "dict", d |-> <<
        [k |-> "arrangements", v |-> [t |-> "list", l |-> <<"altar arrangements", "aisle markers", "chuppah flowers">>]],
        [k |-> "styles", v |-> [t |-> "list", l |-> <<"romantic", "elegant", "dramatic">>]],
        [k |-> "scale", v |-> [t |-> "str", s |-> "large, architectural"]]
      >>]],
      [k |-> "reception", v |-> [t |-> "dict", d |-> <<
        [k |-> "arrangements", v |-> [t |-> "list", l |-> <<"centerpieces", "cake flowers", "sweetheart table">>]],
        [k |-> "styles", v |-> [t |-> "list", l |-> <<"romantic", "garden-style", "elegant">>]],
        [k |-> "scale", v |-> [t |-> "str", s |-> "medium, conversation-friendly"]]
      >>]],
      [k |-> "bridal_party", v |-> [t |-> "dict", d |-> <<
        [k |-> "arrangements", v |-> [t |-> "list", l |-> <<"bouquets", "boutonnieres", "corsages">>]],
        [k |-> "styles", v |-> [t |-> "list", l |-> <<"cohesive with ceremony", "hand-tied", "wearable">>]],
        [k |-> "scale", v |-> [t |-> "str", s |-> "personal, scaled to person"]]
      >>]]
    >>]],
    [k |-> "funeral", v |-> [t |-> "dict", d |-> <<
      [k |-> "standing_spray", v |-> [t |-> "dict", d |-> <<
        [k |-> "description", v |-> [t |-> "str", s |-> "Easel-mounted vertical arrangement"]],
        [k |-> "characteristics", v |-> [t |-> "str", s |-> "formal, respectful, traditional symbolism"]]
      >>]],
      [k |-> "casket_spray", v |-> [t |-> "dict", d |-> <<
        [k |-> "description", v |-> [t |-> "str", s |-> "Long horizontal arrangement for casket"]],
        [k |-> "characteristics", v |-> [t |-> "str", s |-> "full coverage, masculine or feminine styling"]]
      >>]],
      [k |-> "wreath", v |-> [t |-> "dict", d |-> <<
        [k |-> "description", v |-> [t |-> "str", s |-> "Circular form symbolizing eternal life"]],
        [k |-> "characteristics", v |-> [t |-> "str", s |-> "traditional, symmetrical, symbolic"]]
      >>]],
      [k |-> "sympathy_basket", v |-> [t |-> "dict", d |-> <<
        [k |-> "description", v |-> [t |-> "str", s |-> "Comforting arrangement for home"]],
        [k |-> "characteristics", v |-> [t |-> "str", s |-> "thoughtful, lasting, garden-style"]]
      >>]]
    >>]],
    [k |-> "celebration", v |-> [t |-> "dict", d |-> <<
      [k |-> "birthday", v |-> [t |-> "dict", d |-> <<
        [k |-> "characteristics", v |-> [t |-> "str", s |-> "joyful, colorful, personal to recipient"]],
        [k |-> "styles", v |-> [t |-> "list", l |-> <<"vibrant", "fun", "favorite colors">>]]
      >>]],
      [k |-> "anniversary", v |-> [t |-> "dict", d |-> <<
        [k |-> "characteristics", v |-> [t |-> "str", s |-> "romantic, meaningful, often roses"]],
        [k |-> "styles", v |-> [t |-> "list", l |-> <<"elegant", "romantic", "traditional flowers">>]]
      >>]],
      [k |-> "congratulations", v |-> [t |-> "dict", d |-> <<
        [k |-> "characteristics", v |-> [t |-> "str", s |-> "bright, uplifting, celebratory"]],
        [k |-> "styles", v |-> [t |-> "list", l |-> <<"vibrant", "contemporary", "bold">>]]
      >>]],
      [k |-> "get_well", v |-> [t |-> "dict", d |-> <<
        [k |-> "characteristics", v |-> [t |-> "str", s |-> "cheerful, uplifting, fragrance-free"]],
        [k |-> "styles", v |-> [t |-> "list", l |-> <<"bright colors", "garden-style", "optimistic">>]]
      >>]]
    >>]],
    [k |-> "everyday", v |-> [t |-> "dict", d |-> <<
      [k |-> "home_decor", v |-> [t |-> "dict", d |-> <<
        [k |-> "characteristics", v |-> [t |-> "str", s |-> "seasonally appropriate, complements interior"]],
        [k |-> "styles", v |-> [t |-> "list", l |-> <<"garden-style", "minimalist", "whatever brings joy">>]]
      >>]],
      [k |-> "hostess_gift", v |-> [t |-> "dict", d |-> <<
        [k |-> "characteristics", v |-> [t |-> "str", s |-> "thoughtful, pre-arranged, ready to display"]],
        [k |-> "styles", v |-> [t |-> "list", l |-> <<"elegant", "seasonal", "generous but not overwhelming">>]]
      >>]]
    >>]]
  >>]

\* tradition name -> tradition data
CULTURAL_TRADITIONS ==
  <<
    [k |-> "japanese_ikebana", v |-> [
       philosophy |-> "minimalism, asymmetry, nature appreciation, spiritual practice",
       principles |-> <<"heaven-earth-man triangle", "negative space as important as flowers", "seasonal awareness">>,
       key_concepts |-> [ma |-> "negative space, pause, interval", wabi_sabi |-> "imperfect beauty, transience", shin_soe_hikae |-> "primary, secondary, tertiary elements"]
    ]],
    [k |-> "european_garden", v |-> [
       philosophy |-> "abundance, romance, natural beauty",
       principles |-> <<"lush fullness", "color harmony", "garden-fresh aesthetic">>,
       characteristics |-> "loose, organic, just-picked feel, varied textures"
    ]],
    [k |-> "victorian", v |-> [
       philosophy |-> "language of flowers, tight structure, formal beauty",
       principles |-> <<"symbolic meanings", "tight massing", "structured form">>,
       characteristics |-> "dense, formal, symbolic, tussie-mussie style"
    ]],
    [k |-> "contemporary_western", v |-> [
       philosophy |-> "artistic expression, breaking tradition, individual style",
       principles |-> <<"rule-breaking", "artistic interpretation", "personal expression">>,
       characteristics |-> "varied widely, structural, unexpected materials"
    ]]
  >>

(***************************************************************************)
(* Python dict and str primitives used by the code                         *)
(***************************************************************************)

\* list(d.keys()): the keys of an ordered dict, in order
Keys(d) == [i \in 1..Len(d) |-> d[i].k]

\* key in d
HasKey(d, key) == \E i \in 1..Len(d) : d[i].k = key

\* d[key] (the code only subscripts keys that are present)
Get(d, key) == d[CHOOSE i \in 1..Len(d) : d[i].k = key].v

\* sub in s, for two str: s has sub as a contiguous substring
StrIn(sub, s) ==
  \E i \in 0..(Len(s) - Len(sub)) : SubSeq(s, i + 1, i + Len(sub)) = sub

\* the character of s at position i (1-based), as a one-character str
CharAt(s, i) == SubSeq(s, i, i)

UpperLetters == "ABCDEFGHIJKLMNOPQRSTUVWXYZ"
LowerLetters == "abcdefghijklmnopqrstuvwxyz"

IsUpper(c) == \E i \in 1..Len(UpperLetters) : CharAt(UpperLetters, i) = c
IsLower(c) == \E i \in 1..Len(LowerLetters) : CharAt(LowerLetters, i) = c

LowerChar(c) ==
  IF IsUpper(c)
    THEN CharAt(LowerLetters, CHOOSE i \in 1..Len(UpperLetters) : CharAt(UpperLetters, i) = c)
    ELSE c

UpperChar(c) ==
  IF IsLower(c)
    THEN CharAt(UpperLetters, CHOOSE i \in 1..Len(LowerLetters) : CharAt(LowerLetters, i) = c)
    ELSE c

RECURSIVE StrLower(_)
\* s.lower(), on ASCII text: every character lower-cased, halves joined
StrLower(s) ==
  IF Len(s) = 0 THEN ""
  ELSE IF Len(s) = 1 THEN LowerChar(s)
  ELSE LET half == Len(s) \div 2
       IN StrLower(SubSeq(s, 1, half)) \o StrLower(SubSeq(s, half + 1, Len(s)))

RECURSIVE StrReplace(_, _, _)
\* s.replace(old, new) for a one-character old
StrReplace(s, old, new) ==
  IF Len(s) = 0 THEN ""
  ELSE IF Len(s) = 1 THEN (IF s = old THEN new ELSE s)
  ELSE LET half == Len(s) \div 2
       IN StrReplace(SubSeq(s, 1, half), old, new)
            \o StrReplace(SubSeq(s, half + 1, Len(s)), old, new)

IsLetter(c) == IsUpper(c) \/ IsLower(c)

RECURSIVE TitleFrom(_, _, _)
\* characters from..to of s.title(): a letter that follows a non-letter is
\* upper-cased, a letter that follows a letter is lower-cased
TitleFrom(s, from, to) ==
  IF from > to THEN ""
  ELSE IF from = to THEN
    LET c == CharAt(s, from)
    IN IF ~IsLetter(c) THEN c
       ELSE IF from > 1 /\ IsLetter(CharAt(s, from - 1)) THEN LowerChar(c)
       ELSE UpperChar(c)
  ELSE LET mid == (from + to) \div 2
       IN TitleFrom(s, from, mid) \o TitleFrom(s, mid + 1, to)

StrTitle(s) == TitleFrom(s, 1, Len(s))

RECURSIVE StrJoin(_, _)
\* sep.join(parts)
StrJoin(sep, parts) ==
  IF Len(parts) = 0 THEN ""
  ELSE IF Len(parts) = 1 THEN parts[1]
  ELSE parts[1] \o sep \o StrJoin(sep, Tail(parts))

\* {**a, **b}: the keys of both, b's value where both have the key
Merge(a, b) == b @@ a


(***************************************************************************)
(* Inputs: the texts a caller can pass                                     *)
(***************************************************************************)

\* the largest number of phrases joined into one intent text
MaxWords == 2

\* one value, distinct from every result, for a call that has not returned
Pending == [status |-> "pending"]

\* a call that keeps no local variable between its steps
NoLocals == [status |-> "none"]

Returned(value) == [status |-> "ok", value |-> value]

Raised(error) == [status |-> "error", error |-> error]

\* every text made of n phrases of the vocabulary, separated by one space
RECURSIVE TextsOf(_, _)
TextsOf(vocabulary, n) ==
  IF n = 0 THEN {""}
  ELSE IF n = 1 THEN vocabulary
  ELSE {t \o " " \o w : t \in TextsOf(vocabulary, n - 1), w \in vocabulary}

Texts(vocabulary) == UNION {TextsOf(vocabulary, n) : n \in 0..MaxWords}

(***************************************************************************)
(* LAYER 2: deterministic mapping functions                                *)
(***************************************************************************)

\* {"category": category, "type": type, **ARRANGEMENT_STYLES[category][type]}
StyleEntry(category, type) ==
  Merge([category |-> category, type |-> type],
        Get(Get(ARRANGEMENT_STYLES, category), type))

\* detect_arrangement_style with the minimal/modern/contemporary test moved to
\* the front of the chain
detect_arrangement_style_minimal_first(intent, preference) ==
  IF StrIn("minimal", intent) \/ StrIn("modern", intent) \/ StrIn("contemporary", intent) THEN
    StyleEntry("contemporary", "minimalist")
  ELSE IF StrIn("ikebana", intent) \/ StrIn("japanese", intent) THEN
    IF StrIn("moribana", intent) THEN StyleEntry("ikebana", "moribana")
    ELSE IF StrIn("nageire", intent) THEN StyleEntry("ikebana", "nageire")
    ELSE StyleEntry("ikebana", "nageire")
  ELSE IF StrIn("cascade", intent) \/ StrIn("waterfall", intent) \/ StrIn("trailing", intent) THEN
    StyleEntry("western_classical", "cascade")
  ELSE IF StrIn("dome", intent) \/ StrIn("round", intent) \/ StrIn("centerpiece", intent) THEN
    StyleEntry("western_classical", "dome")
  ELSE IF StrIn("garden", intent) \/ StrIn("loose", intent) \/ StrIn("natural", intent)
            \/ StrIn("romantic", intent) THEN
    StyleEntry("contemporary", "garden_style")
  ELSE IF StrIn("crescent", intent) \/ StrIn("curve", intent) THEN
    StyleEntry("western_classical", "crescent")
  ELSE IF preference # "any"
            /\ \E i \in 1..Len(ARRANGEMENT_STYLES) : HasKey(ARRANGEMENT_STYLES[i].v, preference) THEN
    LET i == CHOOSE j \in 1..Len(ARRANGEMENT_STYLES) :
               /\ HasKey(ARRANGEMENT_STYLES[j].v, preference)
               /\ \A h \in 1..(j - 1) : ~HasKey(ARRANGEMENT_STYLES[h].v, preference)
    IN Merge([category |-> ARRANGEMENT_STYLES[i].k, type |-> preference],
             Get(ARRANGEMENT_STYLES[i].v, preference))
  ELSE StyleEntry("contemporary", "garden_style")

\* detect_arrangement_style without the style_preference lookup
detect_arrangement_style_no_preference(intent, preference) ==
  IF StrIn("ikebana", intent) \/ StrIn("japanese", intent) THEN
    IF StrIn("moribana", intent) THEN StyleEntry("ikebana", "moribana")
    ELSE IF StrIn("nageire", intent) THEN StyleEntry("ikebana", "nageire")
    ELSE StyleEntry("ikebana", "nageire")
  ELSE IF StrIn("cascade", intent) \/ StrIn("waterfall", intent) \/ StrIn("trailing", intent) THEN
    StyleEntry("western_classical", "cascade")
  ELSE IF StrIn("dome", intent) \/ StrIn("round", intent) \/ StrIn("centerpiece", intent) THEN
    StyleEntry("western_classical", "dome")
  ELSE IF StrIn("minimal", intent) \/ StrIn("modern", intent) \/ StrIn("contemporary", intent) THEN
    StyleEntry("contemporary", "minimalist")
  ELSE IF StrIn("garden", intent) \/ StrIn("loose", intent) \/ StrIn("natural", intent)
            \/ StrIn("romantic", intent) THEN
    StyleEntry("contemporary", "garden_style")
  ELSE IF StrIn("crescent", intent) \/ StrIn("curve", intent) THEN
    StyleEntry("western_classical", "crescent")
  ELSE StyleEntry("contemporary", "garden_style")

\* detect_arrangement_style whose ikebana rule also knows rikka by name
detect_arrangement_style_rikka_by_name(intent, preference) ==
  IF StrIn("ikebana", intent) \/ StrIn("japanese", intent) THEN
    IF StrIn("moribana", intent) THEN StyleEntry("ikebana", "moribana")
    ELSE IF StrIn("rikka", intent) THEN StyleEntry("ikebana", "rikka")
    ELSE StyleEntry("ikebana", "nageire")
  ELSE IF StrIn("cascade", intent) \/ StrIn("waterfall", intent) \/ StrIn("trailing", intent) THEN
    StyleEntry("western_classical", "cascade")
  ELSE IF StrIn("dome", intent) \/ StrIn("round", intent) \/ StrIn("centerpiece", intent) THEN
    StyleEntry("western_classical", "dome")
  ELSE IF StrIn("minimal", intent) \/ StrIn("modern", intent) \/ StrIn("contemporary", intent) THEN
    StyleEntry("contemporary", "minimalist")
  ELSE IF StrIn("garden", intent) \/ StrIn("loose", intent) \/ StrIn("natural", intent)
            \/ StrIn("romantic", intent) THEN
    StyleEntry("contemporary", "garden_style")
  ELSE IF StrIn("crescent", intent) \/ StrIn("curve", intent) THEN
    StyleEntry("western_classical", "crescent")
  ELSE IF preference # "any"
            /\ \E i \in 1..Len(ARRANGEMENT_STYLES) : HasKey(ARRANGEMENT_STYLES[i].v, preference) THEN
    LET i == CHOOSE j \in 1..Len(ARRANGEMENT_STYLES) :
               /\ HasKey(ARRANGEMENT_STYLES[j].v, preference)
               /\ \A h \in 1..(j - 1) : ~HasKey(ARRANGEMENT_STYLES[h].v, preference)
    IN Merge([category |-> ARRANGEMENT_STYLES[i].k, type |-> preference],
             Get(ARRANGEMENT_STYLES[i].v, preference))
  ELSE StyleEntry("contemporary", "garden_style")

detect_arrangement_style(intent, preference) ==
  IF StrIn("ikebana", intent) \/ StrIn("japanese", intent) THEN
    IF StrIn("moribana", intent) THEN StyleEntry("ikebana", "moribana")
    ELSE IF StrIn("nageire", intent) THEN StyleEntry("ikebana", "nageire")
    ELSE StyleEntry("ikebana", "nageire")
  ELSE IF StrIn("cascade", intent) \/ StrIn("waterfall", intent) \/ StrIn("trailing", intent) THEN
    StyleEntry("western_classical", "cascade")
  ELSE IF StrIn("dome", intent) \/ StrIn("round", intent) \/ StrIn("centerpiece", intent) THEN
    StyleEntry("western_classical", "dome")
  ELSE IF StrIn("minimal", intent) \/ StrIn("modern", intent) \/ StrIn("contemporary", intent) THEN
    StyleEntry("contemporary", "minimalist")
  ELSE IF StrIn("garden", intent) \/ StrIn("loose", intent) \/ StrIn("natural", intent)
            \/ StrIn("romantic", intent) THEN
    StyleEntry("contemporary", "garden_style")
  ELSE IF StrIn("crescent", intent) \/ StrIn("curve", intent) THEN
    StyleEntry("western_classical", "crescent")
  ELSE IF preference # "any"
            /\ \E i \in 1..Len(ARRANGEMENT_STYLES) : HasKey(ARRANGEMENT_STYLES[i].v, preference) THEN
    LET i == CHOOSE j \in 1..Len(ARRANGEMENT_STYLES) :
               /\ HasKey(ARRANGEMENT_STYLES[j].v, preference)
               /\ \A h \in 1..(j - 1) : ~HasKey(ARRANGEMENT_STYLES[h].v, preference)
    IN Merge([category |-> ARRANGEMENT_STYLES[i].k, type |-> preference],
             Get(ARRANGEMENT_STYLES[i].v, preference))
  ELSE StyleEntry("contemporary", "garden_style")

\* {"name": name, "role": role, **FLOWERS_BY_ROLE[role][key]}
FlowerEntry(name, role, key) ==
  Merge([name |-> name, role |-> role], Get(Get(FLOWERS_BY_ROLE, role), key))

\* suggest_flowers_by_occasion with the romantic branch tested before the wedding branch
suggest_flowers_by_occasion_romantic_first(occasion, intent) ==
  LET suggestions == [focal |-> <<>>, line |-> <<>>, filler |-> <<>>, texture |-> <<>>]
  IN IF StrIn("romantic", intent) \/ StrIn("anniversary", intent) THEN
       [suggestions EXCEPT
          !.focal = <<FlowerEntry("roses", "focal", "roses")>>,
          !.texture = <<FlowerEntry("ranunculus", "texture", "ranunculus")>>]
     ELSE IF StrIn("wedding", occasion) \/ StrIn("wedding", intent) \/ StrIn("bridal", intent) THEN
       [suggestions EXCEPT
          !.focal = <<FlowerEntry("garden roses", "focal", "roses"),
                      FlowerEntry("peonies", "focal", "peonies")>>,
          !.filler = <<FlowerEntry("baby breath", "filler", "baby_breath")>>]
     ELSE IF StrIn("vibrant", intent) \/ StrIn("celebration", intent) \/ StrIn("birthday", intent) THEN
       [suggestions EXCEPT
          !.focal = <<FlowerEntry("sunflowers", "focal", "sunflowers"),
                      FlowerEntry("dahlias", "focal", "dahlias")>>]
     ELSE IF StrIn("elegant", intent) \/ StrIn("formal", intent) THEN
       [suggestions EXCEPT
          !.focal = <<FlowerEntry("orchids", "focal", "orchids"),
                      FlowerEntry("lilies", "focal", "lilies")>>]
     ELSE
       [suggestions EXCEPT
          !.focal = <<FlowerEntry("roses", "focal", "roses")>>,
          !.filler = <<FlowerEntry("waxflower", "filler", "waxflower")>>]

suggest_flowers_by_occasion(occasion, intent) ==
  LET suggestions == [focal |-> <<>>, line |-> <<>>, filler |-> <<>>, texture |-> <<>>]
  IN IF StrIn("wedding", occasion) \/ StrIn("wedding", intent) \/ StrIn("bridal", intent) THEN
       [suggestions EXCEPT
          !.focal = <<FlowerEntry("garden roses", "focal", "roses"),
                      FlowerEntry("peonies", "focal", "peonies")>>,
          !.filler = <<FlowerEntry("baby breath", "filler", "baby_breath")>>]
     ELSE IF StrIn("romantic", intent) \/ StrIn("anniversary", intent) THEN
       [suggestions EXCEPT
          !.focal = <<FlowerEntry("roses", "focal", "roses")>>,
          !.texture = <<FlowerEntry("ranunculus", "texture", "ranunculus")>>]
     ELSE IF StrIn("vibrant", intent) \/ StrIn("celebration", intent) \/ StrIn("birthday", intent) THEN
       [suggestions EXCEPT
          !.focal = <<FlowerEntry("sunflowers", "focal", "sunflowers"),
                      FlowerEntry("dahlias", "focal", "dahlias")>>]
     ELSE IF StrIn("elegant", intent) \/ StrIn("formal", intent) THEN
       [suggestions EXCEPT
          !.focal = <<FlowerEntry("orchids", "focal", "orchids"),
                      FlowerEntry("lilies", "focal", "lilies")>>]
     ELSE
       [suggestions EXCEPT
          !.focal = <<FlowerEntry("roses", "focal", "roses")>>,
          !.filler = <<FlowerEntry("waxflower", "filler", "waxflower")>>]

\* the entries the loop over FLOWERS_BY_ROLE[role] appends to detected[role]
MentionedFlowers(role, intent) ==
  LET hits == SelectSeq(Get(FLOWERS_BY_ROLE, role),
                        LAMBDA item : StrIn(StrReplace(item.k, "_", " "), intent))
  IN [i \in 1..Len(hits) |->
        Merge([name |-> StrReplace(hits[i].k, "_", " "), role |-> role], hits[i].v)]

\* the dict `detected` after the loop over FLOWERS_BY_ROLE.items()
DetectedAfterLoop(intent) ==
  LET roles == Keys(FLOWERS_BY_ROLE)
      start == [focal |-> <<>>, line |-> <<>>, filler |-> <<>>, texture |-> <<>>]
  IN [r \in DOMAIN start |->
        IF \E i \in 1..Len(roles) : roles[i] = r
          THEN start[r] \o MentionedFlowers(r, intent)
          ELSE start[r]]

\* detect_flowers that keeps only the first mention of each role
detect_flowers_first_mention_only(intent, occasion) ==
  LET all == DetectedAfterLoop(intent)
      detected == [r \in DOMAIN all |-> IF Len(all[r]) > 1 THEN <<all[r][1]>> ELSE all[r]]
  IN IF \A r \in DOMAIN detected : Len(detected[r]) = 0
       THEN suggest_flowers_by_occasion(occasion, intent)
       ELSE detected

\* detect_flowers without the occasion fallback
detect_flowers_no_fallback(intent, occasion) == DetectedAfterLoop(intent)

detect_flowers(intent, occasion) ==
  LET detected == DetectedAfterLoop(intent)
  IN IF \A r \in DOMAIN detected : Len(detected[r]) = 0
       THEN suggest_flowers_by_occasion(occasion, intent)
       ELSE detected

\* style.get(key) == value, for a value that is not None
FieldIs(d, key, value) == key \in DOMAIN d /\ d[key] = value

\* {"name": name, "category": category, **FOLIAGE_TYPES[category][key]}
FoliageEntry(name, category, key) ==
  Merge([name |-> name, category |-> category], Get(Get(FOLIAGE_TYPES, category), key))

\* the entries the loop over FOLIAGE_TYPES[category] appends
MentionedFoliage(category, intent) ==
  LET hits == SelectSeq(Get(FOLIAGE_TYPES, category),
                        LAMBDA item : StrIn(StrReplace(item.k, "_", " "), intent))
  IN [i \in 1..Len(hits) |->
        Merge([name |-> StrReplace(hits[i].k, "_", " "), category |-> category], hits[i].v)]

RECURSIVE FoliageAfterLoop(_, _)
\* the list `foliage` after the loop has gone through the first n categories
FoliageAfterLoop(intent, n) ==
  IF n = 0 THEN <<>>
  ELSE FoliageAfterLoop(intent, n - 1) \o MentionedFoliage(FOLIAGE_TYPES[n].k, intent)

\* detect_foliage whose last branch suggests nothing
detect_foliage_no_default(intent, style) ==
  LET foliage == FoliageAfterLoop(intent, Len(FOLIAGE_TYPES))
  IN IF Len(foliage) = 0 THEN
       IF FieldIs(style, "category", "contemporary") /\ FieldIs(style, "type", "minimalist") THEN
         <<FoliageEntry("eucalyptus", "structural", "eucalyptus")>>
       ELSE IF FieldIs(style, "category", "contemporary") /\ FieldIs(style, "type", "garden_style") THEN
         <<FoliageEntry("eucalyptus", "structural", "eucalyptus"),
           FoliageEntry("ivy", "accent", "ivy")>>
       ELSE IF FieldIs(style, "category", "ikebana") THEN
         <<FoliageEntry("aspidistra", "dramatic", "aspidistra")>>
       ELSE <<>>
     ELSE foliage

\* detect_foliage that suggests ruscus for every style
detect_foliage_always_ruscus(intent, style) ==
  LET foliage == FoliageAfterLoop(intent, Len(FOLIAGE_TYPES))
  IN IF Len(foliage) = 0 THEN <<FoliageEntry("ruscus", "structural", "ruscus")>>
     ELSE foliage

detect_foliage(intent, style) ==
  LET foliage == FoliageAfterLoop(intent, Len(FOLIAGE_TYPES))
  IN IF Len(foliage) = 0 THEN
       IF FieldIs(style, "category", "contemporary") /\ FieldIs(style, "type", "minimalist") THEN
         <<FoliageEntry("eucalyptus", "structural", "eucalyptus")>>
       ELSE IF FieldIs(style, "category", "contemporary") /\ FieldIs(style, "type", "garden_style") THEN
         <<FoliageEntry("eucalyptus", "structural", "eucalyptus"),
           FoliageEntry("ivy", "accent", "ivy")>>
       ELSE IF FieldIs(style, "category", "ikebana") THEN
         <<FoliageEntry("aspidistra", "dramatic", "aspidistra")>>
       ELSE
         <<FoliageEntry("ruscus", "structural", "ruscus")>>
     ELSE foliage

\* {"palette": name, **COLOR_PALETTES[name]}
PaletteEntry(name) == Merge([palette |-> name], Get(COLOR_PALETTES, name))

\* the palette names that occur in the text, in the order of COLOR_PALETTES
PalettesNamedIn(text) == SelectSeq(Keys(COLOR_PALETTES), LAMBDA name : StrIn(name, text))

\* detect_color_scheme with the season keywords tested before the palette names
detect_color_scheme_season_first(intent, color_preference, occasion) ==
  LET intent_lower == StrLower(intent)
      named == PalettesNamedIn(intent_lower)
  IN IF StrIn("spring", intent_lower) THEN PaletteEntry("spring")
     ELSE IF StrIn("summer", intent_lower) THEN PaletteEntry("summer")
     ELSE IF StrIn("autumn", intent_lower) \/ StrIn("fall", intent_lower) THEN PaletteEntry("autumn")
     ELSE IF StrIn("winter", intent_lower) THEN PaletteEntry("winter")
     ELSE IF Len(named) > 0 THEN PaletteEntry(named[1])
     ELSE IF StrIn("romantic", intent_lower) \/ StrIn("wedding", intent_lower) THEN PaletteEntry("romantic")
     ELSE IF StrIn("elegant", intent_lower) \/ StrIn("formal", intent_lower) THEN PaletteEntry("elegant")
     ELSE IF StrIn("vibrant", intent_lower) \/ StrIn("bold", intent_lower) THEN PaletteEntry("vibrant")
     ELSE IF HasKey(COLOR_PALETTES, color_preference) THEN PaletteEntry(color_preference)
     ELSE PaletteEntry("analogous")

\* detect_color_scheme with color_preference consulted before the mood keywords
detect_color_scheme_preference_before_mood(intent, color_preference, occasion) ==
  LET intent_lower == StrLower(intent)
      named == PalettesNamedIn(intent_lower)
  IN IF Len(named) > 0 THEN PaletteEntry(named[1])
     ELSE IF StrIn("spring", intent_lower) THEN PaletteEntry("spring")
     ELSE IF StrIn("summer", intent_lower) THEN PaletteEntry("summer")
     ELSE IF StrIn("autumn", intent_lower) \/ StrIn("fall", intent_lower) THEN PaletteEntry("autumn")
     ELSE IF StrIn("winter", intent_lower) THEN PaletteEntry("winter")
     ELSE IF HasKey(COLOR_PALETTES, color_preference) THEN PaletteEntry(color_preference)
     ELSE IF StrIn("romantic", intent_lower) \/ StrIn("wedding", intent_lower) THEN PaletteEntry("romantic")
     ELSE IF StrIn("elegant", intent_lower) \/ StrIn("formal", intent_lower) THEN PaletteEntry("elegant")
     ELSE IF StrIn("vibrant", intent_lower) \/ StrIn("bold", intent_lower) THEN PaletteEntry("vibrant")
     ELSE PaletteEntry("analogous")

\* detect_color_scheme that knows autumn by the word "autumn" only
detect_color_scheme_autumn_word_only(intent, color_preference, occasion) ==
  LET intent_lower == StrLower(intent)
      named == PalettesNamedIn(intent_lower)
  IN IF Len(named) > 0 THEN PaletteEntry(named[1])
     ELSE IF StrIn("spring", intent_lower) THEN PaletteEntry("spring")
     ELSE IF StrIn("summer", intent_lower) THEN PaletteEntry("summer")
     ELSE IF StrIn("autumn", intent_lower) THEN PaletteEntry("autumn")
     ELSE IF StrIn("winter", intent_lower) THEN PaletteEntry("winter")
     ELSE IF StrIn("romantic", intent_lower) \/ StrIn("wedding", intent_lower) THEN PaletteEntry("romantic")
     ELSE IF StrIn("elegant", intent_lower) \/ StrIn("formal", intent_lower) THEN PaletteEntry("elegant")
     ELSE IF StrIn("vibrant", intent_lower) \/ StrIn("bold", intent_lower) THEN PaletteEntry("vibrant")
     ELSE IF HasKey(COLOR_PALETTES, color_preference) THEN PaletteEntry(color_preference)
     ELSE PaletteEntry("analogous")

\* detect_color_scheme that takes the palette name that comes first in the text
detect_color_scheme_first_in_text(intent, color_preference, occasion) ==
  LET intent_lower == StrLower(intent)
      named == PalettesNamedIn(intent_lower)
      at(name) == CHOOSE i \in 1..Len(intent_lower) :
                    /\ SubSeq(intent_lower, i, i + Len(name) - 1) = name
                    /\ \A h \in 1..(i - 1) : SubSeq(intent_lower, h, h + Len(name) - 1) # name
      earliest == CHOOSE i \in 1..Len(named) :
                    \A j \in 1..Len(named) : at(named[i]) <= at(named[j])
  IN IF Len(named) > 0 THEN PaletteEntry(named[earliest])
     ELSE IF StrIn("spring", intent_lower) THEN PaletteEntry("spring")
     ELSE IF StrIn("summer", intent_lower) THEN PaletteEntry("summer")
     ELSE IF StrIn("autumn", intent_lower) \/ StrIn("fall", intent_lower) THEN PaletteEntry("autumn")
     ELSE IF StrIn("winter", intent_lower) THEN PaletteEntry("winter")
     ELSE IF StrIn("romantic", intent_lower) \/ StrIn("wedding", intent_lower) THEN PaletteEntry("romantic")
     ELSE IF StrIn("elegant", intent_lower) \/ StrIn("formal", intent_lower) THEN PaletteEntry("elegant")
     ELSE IF StrIn("vibrant", intent_lower) \/ StrIn("bold", intent_lower) THEN PaletteEntry("vibrant")
     ELSE IF HasKey(COLOR_PALETTES, color_preference) THEN PaletteEntry(color_preference)
     ELSE PaletteEntry("analogous")

detect_color_scheme(intent, color_preference, occasion) ==
  LET intent_lower == StrLower(intent)
      named == PalettesNamedIn(intent_lower)
  IN IF Len(named) > 0 THEN PaletteEntry(named[1])
     ELSE IF StrIn("spring", intent_lower) THEN PaletteEntry("spring")
     ELSE IF StrIn("summer", intent_lower) THEN PaletteEntry("summer")
     ELSE IF StrIn("autumn", intent_lower) \/ StrIn("fall", intent_lower) THEN PaletteEntry("autumn")
     ELSE IF StrIn("winter", intent_lower) THEN PaletteEntry("winter")
     ELSE IF StrIn("romantic", intent_lower) \/ StrIn("wedding", intent_lower) THEN PaletteEntry("romantic")
     ELSE IF StrIn("elegant", intent_lower) \/ StrIn("formal", intent_lower) THEN PaletteEntry("elegant")
     ELSE IF StrIn("vibrant", intent_lower) \/ StrIn("bold", intent_lower) THEN PaletteEntry("vibrant")
     ELSE IF HasKey(COLOR_PALETTES, color_preference) THEN PaletteEntry(color_preference)
     ELSE PaletteEntry("analogous")

\* STRUCTURAL_TECHNIQUES[family][name]
Technique(family, name) == Get(Get(STRUCTURAL_TECHNIQUES, family), name)

\* map_structure that looks for "symmetrical" at the start of the balance string
map_structure_balance_by_substring(style, colors) ==
  LET balance_type == IF "balance" \in DOMAIN style THEN style.balance ELSE "asymmetrical"
      contemporary == FieldIs(style, "category", "contemporary")
  IN [balance |->
        IF Len(balance_type) >= 11 /\ SubSeq(balance_type, 1, 11) = "symmetrical"
          THEN Technique("balance", "symmetrical_radial")
        ELSE IF balance_type = "radial symmetrical" THEN Technique("balance", "symmetrical_radial")
        ELSE Technique("balance", "asymmetrical"),
      movement |->
        IF FieldIs(style, "type", "cascade") THEN Technique("movement", "cascade_fall")
        ELSE IF FieldIs(style, "type", "vertical") THEN Technique("movement", "vertical_lift")
        ELSE IF FieldIs(style, "type", "horizontal") THEN Technique("movement", "horizontal_sweep")
        ELSE Technique("movement", "spiral_rotation"),
      proportion |-> Technique("proportion", "golden_ratio"),
      focal |->
        IF contemporary /\ FieldIs(style, "type", "minimalist")
          THEN Technique("focal_points", "single_dominant")
          ELSE Technique("focal_points", "multiple_secondary"),
      density |->
        IF contemporary /\ FieldIs(style, "type", "minimalist")
          THEN Technique("density", "airy_spacious")
        ELSE IF contemporary /\ FieldIs(style, "type", "garden_style")
          THEN Technique("density", "packed_abundant")
        ELSE Technique("density", "clustered_with_voids"),
      texture |-> Technique("texture", "smooth_rough_contrast")]

\* map_structure whose focal choice tests the type without the category
map_structure_focal_by_type_alone(style, colors) ==
  LET balance_type == IF "balance" \in DOMAIN style THEN style.balance ELSE "asymmetrical"
      contemporary == FieldIs(style, "category", "contemporary")
  IN [balance |->
        IF balance_type = "symmetrical" THEN Technique("balance", "symmetrical_radial")
        ELSE IF balance_type = "radial symmetrical" THEN Technique("balance", "symmetrical_radial")
        ELSE Technique("balance", "asymmetrical"),
      movement |->
        IF FieldIs(style, "type", "cascade") THEN Technique("movement", "cascade_fall")
        ELSE IF FieldIs(style, "type", "vertical") THEN Technique("movement", "vertical_lift")
        ELSE IF FieldIs(style, "type", "horizontal") THEN Technique("movement", "horizontal_sweep")
        ELSE Technique("movement", "spiral_rotation"),
      proportion |-> Technique("proportion", "golden_ratio"),
      focal |->
        IF FieldIs(style, "type", "minimalist")
          THEN Technique("focal_points", "single_dominant")
          ELSE Technique("focal_points", "multiple_secondary"),
      density |->
        IF contemporary /\ FieldIs(style, "type", "minimalist")
          THEN Technique("density", "airy_spacious")
        ELSE IF contemporary /\ FieldIs(style, "type", "garden_style")
          THEN Technique("density", "packed_abundant")
        ELSE Technique("density", "clustered_with_voids"),
      texture |-> Technique("texture", "smooth_rough_contrast")]

\* map_structure whose proportion follows the palette
map_structure_proportion_by_colors(style, colors) ==
  LET balance_type == IF "balance" \in DOMAIN style THEN style.balance ELSE "asymmetrical"
      contemporary == FieldIs(style, "category", "contemporary")
  IN [balance |->
        IF balance_type = "symmetrical" THEN Technique("balance", "symmetrical_radial")
        ELSE IF balance_type = "radial symmetrical" THEN Technique("balance", "symmetrical_radial")
        ELSE Technique("balance", "asymmetrical"),
      movement |->
        IF FieldIs(style, "type", "cascade") THEN Technique("movement", "cascade_fall")
        ELSE IF FieldIs(style, "type", "vertical") THEN Technique("movement", "vertical_lift")
        ELSE IF FieldIs(style, "type", "horizontal") THEN Technique("movement", "horizontal_sweep")
        ELSE Technique("movement", "spiral_rotation"),
      proportion |-> IF FieldIs(colors, "palette", "monochromatic")
                      THEN Technique("proportion", "rule_of_thirds")
                      ELSE Technique("proportion", "golden_ratio"),
      focal |->
        IF contemporary /\ FieldIs(style, "type", "minimalist")
          THEN Technique("focal_points", "single_dominant")
          ELSE Technique("focal_points", "multiple_secondary"),
      density |->
        IF contemporary /\ FieldIs(style, "type", "minimalist")
          THEN Technique("density", "airy_spacious")
        ELSE IF contemporary /\ FieldIs(style, "type", "garden_style")
          THEN Technique("density", "packed_abundant")
        ELSE Technique("density", "clustered_with_voids"),
      texture |-> Technique("texture", "smooth_rough_contrast")]

\* map_structure with the movement looked up under the style's category
map_structure_movement_by_category(style, colors) ==
  LET balance_type == IF "balance" \in DOMAIN style THEN style.balance ELSE "asymmetrical"
      contemporary == FieldIs(style, "category", "contemporary")
  IN [balance |->
        IF balance_type = "symmetrical" THEN Technique("balance", "symmetrical_radial")
        ELSE IF balance_type = "radial symmetrical" THEN Technique("balance", "symmetrical_radial")
        ELSE Technique("balance", "asymmetrical"),
      movement |->
        IF FieldIs(style, "category", "cascade") THEN Technique("movement", "cascade_fall")
        ELSE IF FieldIs(style, "category", "vertical") THEN Technique("movement", "vertical_lift")
        ELSE IF FieldIs(style, "category", "horizontal") THEN Technique("movement", "horizontal_sweep")
        ELSE Technique("movement", "spiral_rotation"),
      proportion |-> Technique("proportion", "golden_ratio"),
      focal |->
        IF contemporary /\ FieldIs(style, "type", "minimalist")
          THEN Technique("focal_points", "single_dominant")
          ELSE Technique("focal_points", "multiple_secondary"),
      density |->
        IF contemporary /\ FieldIs(style, "type", "minimalist")
          THEN Technique("density", "airy_spacious")
        ELSE IF contemporary /\ FieldIs(style, "type", "garden_style")
          THEN Technique("density", "packed_abundant")
        ELSE Technique("density", "clustered_with_voids"),
      texture |-> Technique("texture", "smooth_rough_contrast")]

map_structure(style, colors) ==
  LET balance_type == IF "balance" \in DOMAIN style THEN style.balance ELSE "asymmetrical"
      contemporary == FieldIs(style, "category", "contemporary")
  IN [balance |->
        IF balance_type = "symmetrical" THEN Technique("balance", "symmetrical_radial")
        ELSE IF balance_type = "radial symmetrical" THEN Technique("balance", "symmetrical_radial")
        ELSE Technique("balance", "asymmetrical"),
      movement |->
        IF FieldIs(style, "type", "cascade") THEN Technique("movement", "cascade_fall")
        ELSE IF FieldIs(style, "type", "vertical") THEN Technique("movement", "vertical_lift")
        ELSE IF FieldIs(style, "type", "horizontal") THEN Technique("movement", "horizontal_sweep")
        ELSE Technique("movement", "spiral_rotation"),
      proportion |-> Technique("proportion", "golden_ratio"),
      focal |->
        IF contemporary /\ FieldIs(style, "type", "minimalist")
          THEN Technique("focal_points", "single_dominant")
          ELSE Technique("focal_points", "multiple_secondary"),
      density |->
        IF contemporary /\ FieldIs(style, "type", "minimalist")
          THEN Technique("density", "airy_spacious")
        ELSE IF contemporary /\ FieldIs(style, "type", "garden_style")
          THEN Technique("density", "packed_abundant")
        ELSE Technique("density", "clustered_with_voids"),
      texture |-> Technique("texture", "smooth_rough_contrast")]

PyStr(s) == [t |-> "str", s |-> s]

PyDict(items) == [t |-> "dict", d |-> items]

\* repr of a str that holds no quote, backslash or control character
ReprStr(s) == "'" \o s \o "'"

RECURSIVE PyRepr(_)
\* str(x) of a dict, a list of str, or a str inside one of them
PyRepr(x) ==
  IF x.t = "str" THEN ReprStr(x.s)
  ELSE IF x.t = "list" THEN
    "[" \o StrJoin(", ", [i \in 1..Len(x.l) |-> ReprStr(x.l[i])]) \o "]"
  ELSE
    "{" \o StrJoin(", ", [i \in 1..Len(x.d) |-> ReprStr(x.d[i].k) \o ": " \o PyRepr(x.d[i].v)])
        \o "}"

RECURSIVE LoweredReprs(_)
\* str(occ_data).lower() of the first n items of OCCASIONS, in order
LoweredReprs(n) ==
  IF n = 0 THEN <<>>
  ELSE LoweredReprs(n - 1) \o <<StrLower(PyRepr(OCCASIONS.d[n].v))>>

\* the texts the loop of map_occasion searches: they depend on the table alone
OccasionSearchTexts == LoweredReprs(Len(OCCASIONS.d))

\* map_occasion whose search keeps the last occasion that holds the token
map_occasion_last_hit(occasion, style) ==
  IF HasKey(OCCASIONS.d, occasion) THEN Get(OCCASIONS.d, occasion)
  ELSE LET hits == {i \in 1..Len(OCCASIONS.d) : StrIn(occasion, OccasionSearchTexts[i])}
       IN IF hits # {}
            THEN PyDict(<<OCCASIONS.d[CHOOSE i \in hits : \A j \in hits : i >= j]>>)
            ELSE PyDict(<<[k |-> "occasion", v |-> PyStr("general")],
                          [k |-> "notes",
                           v |-> PyStr("versatile arrangement suitable for various contexts")]>>)

map_occasion(occasion, style) ==
  IF HasKey(OCCASIONS.d, occasion) THEN Get(OCCASIONS.d, occasion)
  ELSE LET hits == {i \in 1..Len(OCCASIONS.d) : StrIn(occasion, OccasionSearchTexts[i])}
       IN IF hits # {}
            THEN PyDict(<<OCCASIONS.d[CHOOSE i \in hits : \A j \in hits : i <= j]>>)
            ELSE PyDict(<<[k |-> "occasion", v |-> PyStr("general")],
                          [k |-> "notes",
                           v |-> PyStr("versatile arrangement suitable for various contexts")]>>)

\* get_cultural_context whose last branch is the Victorian tradition
get_cultural_context_victorian_default(style) ==
  IF FieldIs(style, "category", "ikebana") THEN Get(CULTURAL_TRADITIONS, "japanese_ikebana")
  ELSE IF FieldIs(style, "category", "contemporary") /\ FieldIs(style, "type", "garden_style")
    THEN Get(CULTURAL_TRADITIONS, "european_garden")
  ELSE IF FieldIs(style, "category", "contemporary")
    THEN Get(CULTURAL_TRADITIONS, "contemporary_western")
  ELSE Get(CULTURAL_TRADITIONS, "victorian")

get_cultural_context(style) ==
  IF FieldIs(style, "category", "ikebana") THEN Get(CULTURAL_TRADITIONS, "japanese_ikebana")
  ELSE IF FieldIs(style, "category", "contemporary") /\ FieldIs(style, "type", "garden_style")
    THEN Get(CULTURAL_TRADITIONS, "european_garden")
  ELSE IF FieldIs(style, "category", "contemporary")
    THEN Get(CULTURAL_TRADITIONS, "contemporary_western")
  ELSE Get(CULTURAL_TRADITIONS, "european_garden")

\* map_floral_taxonomy with the detectors given the intent as typed
map_floral_taxonomy_case_sensitive(user_intent, style_preference, occasion, color_scheme) ==
  LET detected_style == detect_arrangement_style(user_intent, style_preference)
      detected_flowers == detect_flowers(user_intent, occasion)
      detected_foliage == detect_foliage(user_intent, detected_style)
      detected_colors == detect_color_scheme(user_intent, color_scheme, occasion)
  IN [user_intent |-> user_intent,
      style |-> detected_style,
      flowers |-> detected_flowers,
      foliage |-> detected_foliage,
      colors |-> detected_colors,
      structure |-> map_structure(detected_style, detected_colors),
      occasion |-> map_occasion(occasion, detected_style),
      cultural_context |-> get_cultural_context(detected_style)]

map_floral_taxonomy(user_intent, style_preference, occasion, color_scheme) ==
  LET intent_lower == StrLower(user_intent)
      detected_style == detect_arrangement_style(intent_lower, style_preference)
      detected_flowers == detect_flowers(intent_lower, occasion)
      detected_foliage == detect_foliage(intent_lower, detected_style)
      detected_colors == detect_color_scheme(intent_lower, color_scheme, occasion)
  IN [user_intent |-> user_intent,
      style |-> detected_style,
      flowers |-> detected_flowers,
      foliage |-> detected_foliage,
      colors |-> detected_colors,
      structure |-> map_structure(detected_style, detected_colors),
      occasion |-> map_occasion(occasion, detected_style),
      cultural_context |-> get_cultural_context(detected_style)]

\* [f["name"] for f in flowers.get(role, [])]
RoleNames(flowers, role) ==
  IF role \in DOMAIN flowers
    THEN [i \in 1..Len(flowers[role]) |-> flowers[role][i].name]
    ELSE <<>>

\* format_prompt_enhancement that appends the line-flower clause unconditionally
format_prompt_enhancement_unguarded_line(mapped) ==
  LET style == mapped.style
      flowers == mapped.flowers
      colors == mapped.colors
      structure == mapped.structure
      focal_flowers == RoleNames(flowers, "focal")
      line_flowers == RoleNames(flowers, "line")
      filler_flowers == RoleNames(flowers, "filler")
      foliage_names == [i \in 1..Len(mapped.foliage) |-> mapped.foliage[i].name]
      parts ==
        <<StrTitle(StrReplace(style.type, "_", " ")) \o " floral arrangement",
          "in " \o style.container>>
        \o (IF Len(focal_flowers) > 0
              THEN <<"featuring " \o StrJoin(", ", focal_flowers) \o " as focal flowers">>
              ELSE <<>>)
        \o <<"with " \o StrJoin(", ", line_flowers) \o " creating vertical lines">>
        \o (IF Len(filler_flowers) > 0
              THEN <<"filled with " \o StrJoin(", ", filler_flowers)>>
              ELSE <<>>)
        \o (IF Len(foliage_names) > 0
              THEN <<"accented with " \o StrJoin(", ", foliage_names) \o " foliage">>
              ELSE <<>>)
        \o (IF "colors" \in DOMAIN colors
              THEN <<"in " \o StrJoin(", ", colors.colors) \o " palette">>
              ELSE <<>>)
        \o <<"using " \o structure.balance.description,
             "with " \o structure.movement.description,
             "creating " \o (IF "characteristics" \in DOMAIN style
                               THEN style.characteristics
                               ELSE "beautiful composition")>>
  IN StrJoin(", ", parts)

\* format_prompt_enhancement with a clause for the texture flowers
format_prompt_enhancement_with_texture(mapped) ==
  LET style == mapped.style
      flowers == mapped.flowers
      colors == mapped.colors
      structure == mapped.structure
      focal_flowers == RoleNames(flowers, "focal")
      line_flowers == RoleNames(flowers, "line")
      filler_flowers == RoleNames(flowers, "filler")
      texture_flowers == RoleNames(flowers, "texture")
      foliage_names == [i \in 1..Len(mapped.foliage) |-> mapped.foliage[i].name]
      parts ==
        <<StrTitle(StrReplace(style.type, "_", " ")) \o " floral arrangement",
          "in " \o style.container>>
        \o (IF Len(focal_flowers) > 0
              THEN <<"featuring " \o StrJoin(", ", focal_flowers) \o " as focal flowers">>
              ELSE <<>>)
        \o (IF Len(line_flowers) > 0
              THEN <<"with " \o StrJoin(", ", line_flowers) \o " creating vertical lines">>
              ELSE <<>>)
        \o (IF Len(filler_flowers) > 0
              THEN <<"filled with " \o StrJoin(", ", filler_flowers)>>
              ELSE <<>>)
        \o (IF Len(texture_flowers) > 0
              THEN <<"textured with " \o StrJoin(", ", texture_flowers)>>
              ELSE <<>>)
        \o (IF Len(foliage_names) > 0
              THEN <<"accented with " \o StrJoin(", ", foliage_names) \o " foliage">>
              ELSE <<>>)
        \o (IF "colors" \in DOMAIN colors
              THEN <<"in " \o StrJoin(", ", colors.colors) \o " palette">>
              ELSE <<>>)
        \o <<"using " \o structure.balance.description,
             "with " \o structure.movement.description,
             "creating " \o (IF "characteristics" \in DOMAIN style
                               THEN style.characteristics
                               ELSE "beautiful composition")>>
  IN StrJoin(", ", parts)

format_prompt_enhancement(mapped) ==
  LET style == mapped.style
      flowers == mapped.flowers
      colors == mapped.colors
      structure == mapped.structure
      focal_flowers == RoleNames(flowers, "focal")
      line_flowers == RoleNames(flowers, "line")
      filler_flowers == RoleNames(flowers, "filler")
      foliage_names == [i \in 1..Len(mapped.foliage) |-> mapped.foliage[i].name]
      parts ==
        <<StrTitle(StrReplace(style.type, "_", " ")) \o " floral arrangement",
          "in " \o style.container>>
        \o (IF Len(focal_flowers) > 0
              THEN <<"featuring " \o StrJoin(", ", focal_flowers) \o " as focal flowers">>
              ELSE <<>>)
        \o (IF Len(line_flowers) > 0
              THEN <<"with " \o StrJoin(", ", line_flowers) \o " creating vertical lines">>
              ELSE <<>>)
        \o (IF Len(filler_flowers) > 0
              THEN <<"filled with " \o StrJoin(", ", filler_flowers)>>
              ELSE <<>>)
        \o (IF Len(foliage_names) > 0
              THEN <<"accented with " \o StrJoin(", ", foliage_names) \o " foliage">>
              ELSE <<>>)
        \o (IF "colors" \in DOMAIN colors
              THEN <<"in " \o StrJoin(", ", colors.colors) \o " palette">>
              ELSE <<>>)
        \o <<"using " \o structure.balance.description,
             "with " \o structure.movement.description,
             "creating " \o (IF "characteristics" \in DOMAIN style
                               THEN style.characteristics
                               ELSE "beautiful composition")>>
  IN StrJoin(", ", parts)

(***************************************************************************)
(* COMFYUI WORKFLOW GENERATION                                             *)
(***************************************************************************)

\* get_model_file that passes an unknown name through
get_model_file_passthrough(model_preference) ==
  LET model_map == <<[k |-> "flux", v |-> "flux1-dev.safetensors"],
                     [k |-> "sdxl", v |-> "sd_xl_base_1.0.safetensors"],
                     [k |-> "sd15", v |-> "v1-5-pruned-emaonly.safetensors"]>>
  IN IF HasKey(model_map, model_preference)
       THEN Get(model_map, model_preference)
       ELSE model_preference \o ".safetensors"

get_model_file(model_preference) ==
  LET model_map == <<[k |-> "flux", v |-> "flux1-dev.safetensors"],
                     [k |-> "sdxl", v |-> "sd_xl_base_1.0.safetensors"],
                     [k |-> "sd15", v |-> "v1-5-pruned-emaonly.safetensors"]>>
  IN IF HasKey(model_map, model_preference)
       THEN Get(model_map, model_preference)
       ELSE Get(model_map, "flux")

RECURSIVE StrSplit(_, _)
\* s.split(sep) for a one-character sep
StrSplit(s, sep) ==
  IF ~StrIn(sep, s) THEN <<s>>
  ELSE LET i == CHOOSE j \in 1..Len(s) :
                  /\ CharAt(s, j) = sep
                  /\ \A h \in 1..(j - 1) : CharAt(s, h) # sep
       IN <<SubSeq(s, 1, i - 1)>> \o StrSplit(SubSeq(s, i + 1, Len(s)), sep)

Digits == "0123456789"

IsDigit(c) == \E i \in 1..Len(Digits) : CharAt(Digits, i) = c

DigitValue(c) == (CHOOSE i \in 1..Len(Digits) : CharAt(Digits, i) = c) - 1

IsSpace(c) == c \in {" ", "\t", "\n", "\r", "\f"}

RECURSIVE StrStrip(_)
\* s.strip()
StrStrip(s) ==
  IF s = "" THEN ""
  ELSE IF IsSpace(CharAt(s, 1)) THEN StrStrip(SubSeq(s, 2, Len(s)))
  ELSE IF IsSpace(CharAt(s, Len(s))) THEN StrStrip(SubSeq(s, 1, Len(s) - 1))
  ELSE s

RECURSIVE DigitsValue(_, _)
\* the value of a run of decimal digits and underscores, most significant first
DigitsValue(s, acc) ==
  IF s = "" THEN acc
  ELSE IF CharAt(s, 1) = "_" THEN DigitsValue(SubSeq(s, 2, Len(s)), acc)
  ELSE DigitsValue(SubSeq(s, 2, Len(s)), 10 * acc + DigitValue(CharAt(s, 1)))

\* int(s): [ok |-> TRUE, n |-> value], or [ok |-> FALSE] where int raises
\* ValueError.  int accepts surrounding whitespace, one sign, and decimal
\* digits with single underscores between them.
PyInt(s) ==
  LET stripped == StrStrip(s)
      signed == stripped # "" /\ CharAt(stripped, 1) \in {"+", "-"}
      body == IF signed THEN SubSeq(stripped, 2, Len(stripped)) ELSE stripped
      wellFormed ==
        /\ body # ""
        /\ IsDigit(CharAt(body, 1))
        /\ IsDigit(CharAt(body, Len(body)))
        /\ \A i \in 1..Len(body) : IsDigit(CharAt(body, i)) \/ CharAt(body, i) = "_"
        /\ ~StrIn("__", body)
  IN IF ~wellFormed THEN [ok |-> FALSE]
     ELSE [ok |-> TRUE,
           n |-> IF signed /\ CharAt(stripped, 1) = "-"
                   THEN 0 - DigitsValue(body, 0)
                   ELSE DigitsValue(body, 0)]

\* a Python float literal, kept by its text
Float(text) == [float |-> text]

\* the workflow dict with the two prompt texts in each other's node
WorkflowGraph_prompts_crossed(prompt, negative_prompt, width, height, model, steps) ==
  ("1" :> [class_type |-> "CheckpointLoaderSimple",
           inputs |-> [ckpt_name |-> get_model_file(model)]])
  @@ ("2" :> [class_type |-> "CLIPTextEncode",
              inputs |-> [text |-> negative_prompt, clip |-> <<"1", 1>>]])
  @@ ("3" :> [class_type |-> "CLIPTextEncode",
              inputs |-> [text |-> prompt, clip |-> <<"1", 1>>]])
  @@ ("4" :> [class_type |-> "EmptyLatentImage",
              inputs |-> [width |-> width, height |-> height, batch_size |-> 1]])
  @@ ("5" :> [class_type |-> "KSampler",
              inputs |-> [seed |-> -1,
                          steps |-> steps,
                          cfg |-> Float("7.5"),
                          sampler_name |-> "euler_ancestral",
                          scheduler |-> "normal",
                          denoise |-> Float("1.0"),
                          model |-> <<"1", 0>>,
                          positive |-> <<"2", 0>>,
                          negative |-> <<"3", 0>>,
                          latent_image |-> <<"4", 0>>]])
  @@ ("6" :> [class_type |-> "VAEDecode",
              inputs |-> [samples |-> <<"5", 0>>, vae |-> <<"1", 2>>]])
  @@ ("7" :> [class_type |-> "SaveImage",
              inputs |-> [filename_prefix |-> "floral_arrangement", images |-> <<"6", 0>>]])

\* the workflow dict with the sampler's latent image wired to the decoder's output
WorkflowGraph_latent_from_decoder(prompt, negative_prompt, width, height, model, steps) ==
  ("1" :> [class_type |-> "CheckpointLoaderSimple",
           inputs |-> [ckpt_name |-> get_model_file(model)]])
  @@ ("2" :> [class_type |-> "CLIPTextEncode",
              inputs |-> [text |-> prompt, clip |-> <<"1", 1>>]])
  @@ ("3" :> [class_type |-> "CLIPTextEncode",
              inputs |-> [text |-> negative_prompt, clip |-> <<"1", 1>>]])
  @@ ("4" :> [class_type |-> "EmptyLatentImage",
              inputs |-> [width |-> width, height |-> height, batch_size |-> 1]])
  @@ ("5" :> [class_type |-> "KSampler",
              inputs |-> [seed |-> -1,
                          steps |-> steps,
                          cfg |-> Float("7.5"),
                          sampler_name |-> "euler_ancestral",
                          scheduler |-> "normal",
                          denoise |-> Float("1.0"),
                          model |-> <<"1", 0>>,
                          positive |-> <<"2", 0>>,
                          negative |-> <<"3", 0>>,
                          latent_image |-> <<"6", 0>>]])
  @@ ("6" :> [class_type |-> "VAEDecode",
              inputs |-> [samples |-> <<"5", 0>>, vae |-> <<"1", 2>>]])
  @@ ("7" :> [class_type |-> "SaveImage",
              inputs |-> [filename_prefix |-> "floral_arrangement", images |-> <<"6", 0>>]])

\* the workflow dict literal, once width and height are known
WorkflowGraph(prompt, negative_prompt, width, height, model, steps) ==
  ("1" :> [class_type |-> "CheckpointLoaderSimple",
           inputs |-> [ckpt_name |-> get_model_file(model)]])
  @@ ("2" :> [class_type |-> "CLIPTextEncode",
              inputs |-> [text |-> prompt, clip |-> <<"1", 1>>]])
  @@ ("3" :> [class_type |-> "CLIPTextEncode",
              inputs |-> [text |-> negative_prompt, clip |-> <<"1", 1>>]])
  @@ ("4" :> [class_type |-> "EmptyLatentImage",
              inputs |-> [width |-> width, height |-> height, batch_size |-> 1]])
  @@ ("5" :> [class_type |-> "KSampler",
              inputs |-> [seed |-> -1,
                          steps |-> steps,
                          cfg |-> Float("7.5"),
                          sampler_name |-> "euler_ancestral",
                          scheduler |-> "normal",
                          denoise |-> Float("1.0"),
                          model |-> <<"1", 0>>,
                          positive |-> <<"2", 0>>,
                          negative |-> <<"3", 0>>,
                          latent_image |-> <<"4", 0>>]])
  @@ ("6" :> [class_type |-> "VAEDecode",
              inputs |-> [samples |-> <<"5", 0>>, vae |-> <<"1", 2>>]])
  @@ ("7" :> [class_type |-> "SaveImage",
              inputs |-> [filename_prefix |-> "floral_arrangement", images |-> <<"6", 0>>]])

\* build_comfyui_workflow that falls back to 1024 for a side it cannot read
build_comfyui_workflow_default_size(prompt, negative_prompt, size, model, steps) ==
  LET pieces == StrSplit(size, "x") \o <<"", "">>
      side(k) == IF PyInt(pieces[k]).ok THEN PyInt(pieces[k]).n ELSE 1024
  IN Returned(WorkflowGraph(prompt, negative_prompt, side(1), side(2), model, steps))

\* build_comfyui_workflow that unpacks the size as height, width
build_comfyui_workflow_swapped(prompt, negative_prompt, size, model, steps) ==
  LET pieces == StrSplit(size, "x")
  IN IF Len(pieces) # 2 THEN Raised("ValueError")
     ELSE IF ~PyInt(pieces[1]).ok \/ ~PyInt(pieces[2]).ok THEN Raised("ValueError")
     ELSE Returned(WorkflowGraph(prompt, negative_prompt, PyInt(pieces[2]).n,
                                 PyInt(pieces[1]).n, model, steps))

\* width, height = map(int, size.split('x')) raises ValueError unless the split
\* gives exactly two pieces and int accepts both
build_comfyui_workflow(prompt, negative_prompt, size, model, steps) ==
  LET pieces == StrSplit(size, "x")
  IN IF Len(pieces) # 2 THEN Raised("ValueError")
     ELSE IF ~PyInt(pieces[1]).ok \/ ~PyInt(pieces[2]).ok THEN Raised("ValueError")
     ELSE Returned(WorkflowGraph(prompt, negative_prompt, PyInt(pieces[1]).n,
                                 PyInt(pieces[2]).n, model, steps))

(***************************************************************************)
(* detect_arrangement_style as map_floral_taxonomy calls it                *)
(***************************************************************************)

\* one trigger of every rule, a sub-type, a neutral word, a word that merely
\* contains a trigger, and mixed case
StylePhrases ==
  {"ikebana", "moribana", "cascade", "trailing", "dome", "modern", "romantic", "curve",
   "bouquet", "background", "Ikebana", "MODERN"}

\* every trigger phrase alone, and the style names the code never tests
StyleSingles ==
  {"japanese", "nageire", "rikka", "waterfall", "round", "centerpiece", "minimal",
   "contemporary", "garden", "loose", "natural", "crescent", "ikebana rikka",
   "japanese nageire", "hogarth curve"}

StyleTexts == Texts(StylePhrases) \cup StyleSingles

StylePreferences ==
  {"any", "rikka", "dome", "parallel", "ikebana", "unknown_style", "hogarth", "triangular",
   "vertical", "horizontal", "structural"}

InitStyle ==
  /\ op = "detect_arrangement_style"
  /\ args \in {[user_intent |-> t, style_preference |-> p] :
                 t \in StyleTexts, p \in StylePreferences}
  /\ locals = NoLocals
  /\ result = Pending

\* map_floral_taxonomy lower-cases the text and hands it to the detector
DetectStyle ==
  /\ op = "detect_arrangement_style"
  /\ result = Pending
  /\ result' = Returned(detect_arrangement_style(StrLower(args.user_intent),
                                                 args.style_preference))
  /\ UNCHANGED <<op, args, locals>>

NextStyle == DetectStyle

SpecStyle == InitStyle /\ [][NextStyle]_vars

(***************************************************************************)
(* Style detection: the priority order and the fallbacks                   *)
(***************************************************************************)

\* r is the table's entry for (r.category, r.type), tagged with both
IsStyleEntry(r) ==
  /\ {"category", "type"} \subseteq DOMAIN r
  /\ HasKey(ARRANGEMENT_STYLES, r.category)
  /\ HasKey(Get(ARRANGEMENT_STYLES, r.category), r.type)
  /\ LET data == Get(Get(ARRANGEMENT_STYLES, r.category), r.type)
     IN /\ DOMAIN r = DOMAIN data \cup {"category", "type"}
        /\ \A f \in DOMAIN data : r[f] = data[f]

\* the types of a category of the style table
TypesOf(category) ==
  {Get(ARRANGEMENT_STYLES, category)[i].k : i \in 1..Len(Get(ARRANGEMENT_STYLES, category))}

\* the priority order as the claim words it
StyleRulesAsClaimed ==
  << [triggers |-> {"ikebana", "japanese"}, category |-> "ikebana", types |-> TypesOf("ikebana")],
     [triggers |-> {"cascade", "waterfall"}, category |-> "western_classical", types |-> {"cascade"}],
     [triggers |-> {"dome", "round", "centerpiece"}, category |-> "western_classical", types |-> {"dome"}],
     [triggers |-> {"minimal", "modern", "contemporary"}, category |-> "contemporary", types |-> {"minimalist"}],
     [triggers |-> {"garden", "loose", "natural", "romantic"}, category |-> "contemporary", types |-> {"garden_style"}],
     [triggers |-> {"crescent", "curve"}, category |-> "western_classical", types |-> {"crescent"}] >>

\* the same order with "trailing" among the triggers of the cascade rule
StyleRulesAmended ==
  [StyleRulesAsClaimed EXCEPT ![2].triggers = {"cascade", "waterfall", "trailing"}]

\* the rule has a trigger in the lower-cased text
RuleMatches(rule, low) == \E t \in rule.triggers : StrIn(t, low)

SomeRuleMatches(rules, low) == \E i \in 1..Len(rules) : RuleMatches(rules[i], low)

FirstMatchingRule(rules, low) ==
  rules[CHOOSE i \in 1..Len(rules) :
          /\ RuleMatches(rules[i], low)
          /\ \A h \in 1..(i - 1) : ~RuleMatches(rules[h], low)]

StyleReturned == op = "detect_arrangement_style" /\ result # Pending

\* the detector's answer is the entry of the first rule of `rules` that has a
\* trigger in the text, compared without regard to case
FollowsStylePriority(rules) ==
  StyleReturned =>
    LET low == StrLower(args.user_intent)
    IN SomeRuleMatches(rules, low) =>
         /\ result.status = "ok"
         /\ IsStyleEntry(result.value)
         /\ LET rule == FirstMatchingRule(rules, low)
            IN /\ result.value.category = rule.category
               /\ result.value.type \in rule.types

\* C1 as stated: with the trigger phrases the claim lists (cascade/waterfall for
\* the cascade rule), the detector returns the entry of the earliest matching
\* rule, whatever the position of the phrases and whatever style_preference is.
C1_AsClaimed == FollowsStylePriority(StyleRulesAsClaimed)

\* C1 amended: the same priority order, where the cascade rule is triggered by
\* cascade, waterfall or trailing: the detector returns the entry of the
\* earliest matching rule, whatever the phrase order and the style_preference.
C1_StylePriority == FollowsStylePriority(StyleRulesAmended)

\* "modern" before "ikebana" in the text, a preference naming another style:
\* an ikebana entry is returned
C1_Witness ==
  /\ StyleReturned
  /\ args.user_intent = "modern ikebana"
  /\ args.style_preference = "dome"
  /\ result.value.category = "ikebana"

KnownStyle(preference) ==
  \E i \in 1..Len(ARRANGEMENT_STYLES) : HasKey(ARRANGEMENT_STYLES[i].v, preference)

\* C2: when the text holds no trigger phrase, the detector returns the table
\* entry whose type is style_preference (tagged with its own category) if the
\* preference names a style of the table, and the (contemporary, garden_style)
\* entry otherwise; it returns normally for every text and every preference.
C2_PreferenceThenDefault ==
  StyleReturned =>
    /\ result.status = "ok"
    /\ ~SomeRuleMatches(StyleRulesAmended, StrLower(args.user_intent)) =>
         /\ IsStyleEntry(result.value)
         /\ IF KnownStyle(args.style_preference)
              THEN /\ result.value.type = args.style_preference
                   /\ HasKey(Get(ARRANGEMENT_STYLES, result.value.category),
                             args.style_preference)
              ELSE /\ result.value.category = "contemporary"
                   /\ result.value.type = "garden_style"

\* a text without triggers and the preference "rikka": the rikka entry
C2_Witness ==
  /\ StyleReturned
  /\ args.user_intent = "bouquet"
  /\ args.style_preference = "rikka"
  /\ result.value.category = "ikebana"
  /\ result.value.type = "rikka"
  /\ result.value.balance = "symmetrical"

(***************************************************************************)
(* detect_flowers as map_floral_taxonomy calls it                          *)
(***************************************************************************)

\* every flower name of the table, as the code searches for it
FlowerNames ==
  UNION {{StrReplace(FLOWERS_BY_ROLE[i].v[j].k, "_", " ") : j \in 1..Len(FLOWERS_BY_ROLE[i].v)} :
           i \in 1..Len(FLOWERS_BY_ROLE)}

FlowerPhrases ==
  {"roses", "peonies", "stock", "bells of ireland", "baby", "breath", "ROSES",
   "stockholm", "wedding", "romantic", "birthday", "formal", "bouquet"}

\* texts of up to MaxWords phrases, and every flower name and fallback keyword alone
FlowerTexts ==
  Texts(FlowerPhrases) \cup FlowerNames
    \cup {"bridal", "anniversary", "vibrant", "celebration", "elegant",
          "Wedding Bouquet", "peonies with roses and stock"}

FlowerOccasions == {"general", "wedding", "spring wedding", "birthday", "Wedding"}

InitFlowers ==
  /\ op = "detect_flowers"
  /\ args \in {[user_intent |-> t, occasion |-> o] : t \in FlowerTexts, o \in FlowerOccasions}
  /\ locals = NoLocals
  /\ result = Pending

\* map_floral_taxonomy lower-cases the text; the occasion is passed as given
DetectFlowers ==
  /\ op = "detect_flowers"
  /\ result = Pending
  /\ result' = Returned(detect_flowers(StrLower(args.user_intent), args.occasion))
  /\ UNCHANGED <<op, args, locals>>

NextFlowers == DetectFlowers

SpecFlowers == InitFlowers /\ [][NextFlowers]_vars

(***************************************************************************)
(* Flower detection: mentions, fallback branches, the four role keys       *)
(***************************************************************************)

FlowerRoles == {"focal", "line", "filler", "texture"}

FlowersReturned == op = "detect_flowers" /\ result # Pending /\ result.status = "ok"

\* the positions, in the table of `role`, of the flowers named in the text
MentionedAt(role, low) ==
  {i \in 1..Len(Get(FLOWERS_BY_ROLE, role)) :
     StrIn(StrReplace(Get(FLOWERS_BY_ROLE, role)[i].k, "_", " "), low)}

NoFlowerMentioned(low) == \A role \in FlowerRoles : MentionedAt(role, low) = {}

\* the names listed under a role, in order
NamesOf(list) == [i \in 1..Len(list) |-> list[i].name]

\* C4: every flower of the table whose name (underscores as spaces) occurs in
\* the text is in the result under the key of its table role, with its table
\* data; each role lists exactly the mentioned flowers of that role, however
\* many, so the occasion fallback adds nothing once one flower is mentioned.
C4_MentionsAllListed ==
  FlowersReturned =>
    LET low == StrLower(args.user_intent)
    IN ~NoFlowerMentioned(low) =>
         \A role \in FlowerRoles :
           LET table == Get(FLOWERS_BY_ROLE, role)
               listed == result.value[role]
           IN /\ Len(listed) = Cardinality(MentionedAt(role, low))
              /\ \A i \in MentionedAt(role, low) :
                   \E n \in 1..Len(listed) :
                     /\ listed[n].name = StrReplace(table[i].k, "_", " ")
                     /\ listed[n].role = role
                     /\ \A f \in DOMAIN table[i].v : listed[n][f] = table[i].v[f]

\* two focal flowers and one line flower named in a wedding call: all three are
\* listed, in table order, and the wedding set (garden roses, baby breath) is not
C4_Witness ==
  /\ FlowersReturned
  /\ args.user_intent = "peonies with roses and stock"
  /\ args.occasion = "wedding"
  /\ NamesOf(result.value.focal) = <<"roses", "peonies">>
  /\ NamesOf(result.value.line) = <<"stock">>
  /\ result.value.filler = <<>>

\* the fallback branches in their order, each with the names of its curated set
FallbackBranches ==
  << [fires |-> [occasion, low \in STRING |->
                   StrIn("wedding", occasion) \/ StrIn("wedding", low) \/ StrIn("bridal", low)],
      focal |-> <<"garden roses", "peonies">>, filler |-> <<"baby breath">>, texture |-> <<>>],
     [fires |-> [occasion, low \in STRING |-> StrIn("romantic", low) \/ StrIn("anniversary", low)],
      focal |-> <<"roses">>, filler |-> <<>>, texture |-> <<"ranunculus">>],
     [fires |-> [occasion, low \in STRING |->
                   StrIn("vibrant", low) \/ StrIn("celebration", low) \/ StrIn("birthday", low)],
      focal |-> <<"sunflowers", "dahlias">>, filler |-> <<>>, texture |-> <<>>],
     [fires |-> [occasion, low \in STRING |-> StrIn("elegant", low) \/ StrIn("formal", low)],
      focal |-> <<"orchids", "lilies">>, filler |-> <<>>, texture |-> <<>>],
     [fires |-> [occasion, low \in STRING |-> TRUE],
      focal |-> <<"roses">>, filler |-> <<"waxflower">>, texture |-> <<>>] >>

FirstBranch(occasion, low) ==
  FallbackBranches[CHOOSE i \in 1..Len(FallbackBranches) :
                     /\ FallbackBranches[i].fires[occasion, low]
                     /\ \A h \in 1..(i - 1) : ~FallbackBranches[h].fires[occasion, low]]

\* C5: when no flower name occurs in the text, the result is the curated set of
\* the first branch that matches in the order wedding (occasion or text, or
\* "bridal" in the text), romantic/anniversary, vibrant/celebration/birthday,
\* elegant/formal, default (roses and waxflower), and of no other branch.
C5_FirstFallbackBranch ==
  FlowersReturned =>
    LET low == StrLower(args.user_intent)
    IN NoFlowerMentioned(low) =>
         LET branch == FirstBranch(args.occasion, low)
         IN /\ NamesOf(result.value.focal) = branch.focal
            /\ NamesOf(result.value.filler) = branch.filler
            /\ NamesOf(result.value.texture) = branch.texture
            /\ result.value.line = <<>>

\* occasion "wedding" and a romantic text: the wedding set, not the romantic one
C5_Witness ==
  /\ FlowersReturned
  /\ args.occasion = "wedding"
  /\ args.user_intent = "romantic bouquet"
  /\ NamesOf(result.value.focal) = <<"garden roses", "peonies">>
  /\ NamesOf(result.value.filler) = <<"baby breath">>
  /\ result.value.texture = <<>>

\* C6: for every text and occasion the result has exactly the keys focal, line,
\* filler and texture, and at least one of the four lists is not empty.
C6_FourRolesOneFilled ==
  FlowersReturned =>
    /\ DOMAIN result.value = FlowerRoles
    /\ \E role \in FlowerRoles : Len(result.value[role]) > 0

\* nothing recognised in text or occasion: the default branch fills two roles
C6_Witness ==
  /\ FlowersReturned
  /\ args.user_intent = "bouquet"
  /\ args.occasion = "general"
  /\ DOMAIN result.value = FlowerRoles
  /\ Len(result.value.focal) = 1
  /\ Len(result.value.filler) = 1

(***************************************************************************)
(* detect_color_scheme as map_floral_taxonomy calls it                     *)
(***************************************************************************)

ColorPhrases ==
  {"triadic", "romantic", "elegant", "spring", "winter", "fall", "wedding", "formal",
   "bold", "waterfall", "bouquet", "Autumn"}

\* texts of up to MaxWords phrases, and every other palette name and keyword alone
ColorTexts ==
  Texts(ColorPhrases)
    \cup {"monochromatic", "analogous", "complementary", "vibrant", "summer", "autumn", "BOLD"}

ColorPreferences == {"harmonious", "monochromatic", "winter", "romantic", "Romantic", "pastel"}

ColorOccasions == {"general", "wedding"}

InitColors ==
  /\ op = "detect_color_scheme"
  /\ args \in {[user_intent |-> t, color_scheme |-> c, occasion |-> o] :
                 t \in ColorTexts, c \in ColorPreferences, o \in ColorOccasions}
  /\ locals = NoLocals
  /\ result = Pending

DetectColors ==
  /\ op = "detect_color_scheme"
  /\ result = Pending
  /\ result' = Returned(detect_color_scheme(StrLower(args.user_intent), args.color_scheme,
                                            args.occasion))
  /\ UNCHANGED <<op, args, locals>>

NextColors == DetectColors

SpecColors == InitColors /\ [][NextColors]_vars

(***************************************************************************)
(* Colour detection: the five rules in order                               *)
(***************************************************************************)

ColorsReturned == op = "detect_color_scheme" /\ result # Pending /\ result.status = "ok"

PaletteNames == {COLOR_PALETTES[i].k : i \in 1..Len(COLOR_PALETTES)}

\* r is one palette of the table, tagged with its name
IsPaletteEntry(r) ==
  /\ "palette" \in DOMAIN r
  /\ r.palette \in PaletteNames
  /\ LET data == Get(COLOR_PALETTES, r.palette)
     IN /\ DOMAIN r = DOMAIN data \cup {"palette"}
        /\ \A f \in DOMAIN data : r[f] = data[f]

\* rules 2 and 3: keyword sets in the order they are tried, each with its palette
SeasonRules ==
  << [keywords |-> {"spring"}, palette |-> "spring"],
     [keywords |-> {"summer"}, palette |-> "summer"],
     [keywords |-> {"autumn", "fall"}, palette |-> "autumn"],
     [keywords |-> {"winter"}, palette |-> "winter"] >>

MoodRules ==
  << [keywords |-> {"romantic", "wedding"}, palette |-> "romantic"],
     [keywords |-> {"elegant", "formal"}, palette |-> "elegant"],
     [keywords |-> {"vibrant", "bold"}, palette |-> "vibrant"] >>

KeywordRuleFires(rule, low) == \E w \in rule.keywords : StrIn(w, low)

AnyKeywordRule(rules, low) == \E i \in 1..Len(rules) : KeywordRuleFires(rules[i], low)

FirstKeywordRule(rules, low) ==
  rules[CHOOSE i \in 1..Len(rules) :
          /\ KeywordRuleFires(rules[i], low)
          /\ \A h \in 1..(i - 1) : ~KeywordRuleFires(rules[h], low)]

\* C3: the result is exactly one palette of the table, chosen by the first
\* satisfied rule: (1) a palette name occurring in the text, (2) a season
\* keyword, (3) a mood keyword, (4) color_preference when it names a palette,
\* (5) analogous; so a keyword of rules 1-3 overrides a valid color_preference.
C3_ColorRuleOrder ==
  ColorsReturned =>
    LET low == StrLower(args.user_intent)
        chosen == result.value.palette
    IN /\ IsPaletteEntry(result.value)
       /\ IF \E name \in PaletteNames : StrIn(name, low)
            THEN StrIn(chosen, low)
          ELSE IF AnyKeywordRule(SeasonRules, low)
            THEN chosen = FirstKeywordRule(SeasonRules, low).palette
          ELSE IF AnyKeywordRule(MoodRules, low)
            THEN chosen = FirstKeywordRule(MoodRules, low).palette
          ELSE IF args.color_scheme \in PaletteNames
            THEN chosen = args.color_scheme
          ELSE chosen = "analogous"

\* a mood keyword (rule 3) against a valid preference (rule 4): the mood wins
C3_Witness ==
  /\ ColorsReturned
  /\ args.user_intent = "wedding bouquet"
  /\ args.color_scheme = "winter"
  /\ result.value.palette = "romantic"

(***************************************************************************)
(* detect_foliage as map_floral_taxonomy calls it                          *)
(***************************************************************************)

FoliagePhrases ==
  {"ferns", "eucalyptus", "ivy", "dusty", "miller", "olive branches", "palm",
   "aspidistra", "bouquet", "PALM"}

\* texts of up to MaxWords phrases, and every other foliage name alone
FoliageTexts ==
  Texts(FoliagePhrases) \cup {"ruscus", "salal", "pittosporum", "monstera", "Dusty Miller"}

\* every style map_floral_taxonomy can hand over: each entry of the style table
TableStyles ==
  UNION {{StyleEntry(ARRANGEMENT_STYLES[i].k, ARRANGEMENT_STYLES[i].v[j].k) :
            j \in 1..Len(ARRANGEMENT_STYLES[i].v)} : i \in 1..Len(ARRANGEMENT_STYLES)}

InitFoliage ==
  /\ op = "detect_foliage"
  /\ args \in {[user_intent |-> t, style |-> s] : t \in FoliageTexts, s \in TableStyles}
  /\ locals = NoLocals
  /\ result = Pending

DetectFoliage ==
  /\ op = "detect_foliage"
  /\ result = Pending
  /\ result' = Returned(detect_foliage(StrLower(args.user_intent), args.style))
  /\ UNCHANGED <<op, args, locals>>

NextFoliage == DetectFoliage

SpecFoliage == InitFoliage /\ [][NextFoliage]_vars

(***************************************************************************)
(* Foliage detection: mentions in table order, else the style fallback     *)
(***************************************************************************)

FoliageReturned == op = "detect_foliage" /\ result # Pending /\ result.status = "ok"

RECURSIVE FoliageTableOrder(_)
\* (category, key) of the first n categories' foliage, category by category
FoliageTableOrder(n) ==
  IF n = 0 THEN <<>>
  ELSE FoliageTableOrder(n - 1)
         \o [j \in 1..Len(FOLIAGE_TYPES[n].v) |->
               [category |-> FOLIAGE_TYPES[n].k, key |-> FOLIAGE_TYPES[n].v[j].k]]

\* C7: the result is never empty: it lists every foliage name found in the
\* text, in table order (category order, then name order), and only when none
\* is found the style fallback: (contemporary, minimalist) -> eucalyptus;
\* (contemporary, garden_style) -> eucalyptus, ivy; ikebana -> aspidistra;
\* every other style -> ruscus.
C7_FoliageNeverEmpty ==
  FoliageReturned =>
    LET low == StrLower(args.user_intent)
        found == SelectSeq(FoliageTableOrder(Len(FOLIAGE_TYPES)),
                           LAMBDA e : StrIn(StrReplace(e.key, "_", " "), low))
        style == args.style
        list == result.value
    IN /\ Len(list) > 0
       /\ IF Len(found) > 0
            THEN /\ Len(list) = Len(found)
                 /\ \A i \in 1..Len(found) :
                      LET data == Get(Get(FOLIAGE_TYPES, found[i].category), found[i].key)
                      IN /\ list[i].name = StrReplace(found[i].key, "_", " ")
                         /\ list[i].category = found[i].category
                         /\ \A f \in DOMAIN data : list[i][f] = data[f]
          ELSE IF style.category = "contemporary" /\ style.type = "minimalist"
            THEN NamesOf(list) = <<"eucalyptus">>
          ELSE IF style.category = "contemporary" /\ style.type = "garden_style"
            THEN NamesOf(list) = <<"eucalyptus", "ivy">>
          ELSE IF style.category = "ikebana"
            THEN NamesOf(list) = <<"aspidistra">>
          ELSE NamesOf(list) = <<"ruscus">>

\* no foliage named and a western classical style: the ruscus fallback
C7_Witness ==
  /\ FoliageReturned
  /\ args.user_intent = "bouquet"
  /\ args.style.type = "dome"
  /\ NamesOf(result.value) = <<"ruscus">>
  /\ result.value[1].category = "structural"

(***************************************************************************)
(* MCP tool enhance_floral_prompt, in its two steps                        *)
(***************************************************************************)

SYNTHESIS_INSTRUCTION ==
  "Use the structured data above to synthesize a vivid, cohesive image generation prompt. "
  \o "Weave together the style characteristics, specific flowers, foliage, color palette, "
  \o "and structural techniques into flowing descriptive prose. Emphasize the sensory qualities "
  \o "(texture, color, form, movement) and the overall aesthetic effect. Keep the prompt "
  \o "60-100 words, suitable for Flux, SDXL, or Midjourney."

\* words no table knows, one keyword of each detector, and a line flower
EnhancePhrases == {"bouquet", "ikebana", "modern", "roses", "stock", "ivy", "winter"}

EnhanceTexts ==
  Texts(EnhancePhrases)
    \cup {"romantic spring wedding centerpiece", "Bouquet", "ROSES and Ivy", "trailing",
          "thistle", "gift"}

EnhanceStylePreferences == {"any", "rikka", "unknown_style"}

EnhanceOccasions == {"general", "wedding", "picnic"}

EnhanceColorSchemes == {"harmonious", "romantic", "pastel"}

InitEnhance ==
  /\ op = "enhance_floral_prompt"
  /\ args \in {[user_intent |-> t, style_preference |-> p, occasion |-> o, color_scheme |-> c] :
                 t \in EnhanceTexts, p \in EnhanceStylePreferences,
                 o \in EnhanceOccasions, c \in EnhanceColorSchemes}
  /\ locals = NoLocals
  /\ result = Pending

\* mapped = map_floral_taxonomy(user_intent, style_preference, occasion, color_scheme)
EnhanceMap ==
  /\ op = "enhance_floral_prompt"
  /\ locals = NoLocals
  /\ result = Pending
  /\ locals' = [mapped |-> map_floral_taxonomy(args.user_intent, args.style_preference,
                                               args.occasion, args.color_scheme)]
  /\ UNCHANGED <<op, args, result>>

\* enhanced_prompt = format_prompt_enhancement(mapped), then the returned dict
EnhanceReturn ==
  /\ op = "enhance_floral_prompt"
  /\ locals # NoLocals
  /\ result = Pending
  /\ result' = Returned([user_intent |-> args.user_intent,
                         style |-> locals.mapped.style,
                         flowers |-> locals.mapped.flowers,
                         foliage |-> locals.mapped.foliage,
                         colors |-> locals.mapped.colors,
                         structure |-> locals.mapped.structure,
                         occasion |-> locals.mapped.occasion,
                         cultural_context |-> locals.mapped.cultural_context,
                         enhanced_prompt |-> format_prompt_enhancement(locals.mapped),
                         synthesis_instruction |-> SYNTHESIS_INSTRUCTION])
  /\ UNCHANGED <<op, args, locals>>

NextEnhance == EnhanceMap \/ EnhanceReturn

SpecEnhance == InitEnhance /\ [][NextEnhance]_vars

(***************************************************************************)
(* Unrecognized input and the formatted sentence                           *)
(***************************************************************************)

EnhanceReturned == op = "enhance_floral_prompt" /\ result # Pending /\ result.status = "ok"

FoliageNames ==
  UNION {{StrReplace(FOLIAGE_TYPES[i].v[j].k, "_", " ") : j \in 1..Len(FOLIAGE_TYPES[i].v)} :
           i \in 1..Len(FOLIAGE_TYPES)}

\* every phrase that some detector looks for in the text
RecognizedPhrases ==
  UNION {StyleRulesAmended[i].triggers : i \in 1..Len(StyleRulesAmended)}
    \cup FlowerNames \cup FoliageNames \cup PaletteNames
    \cup UNION {SeasonRules[i].keywords : i \in 1..Len(SeasonRules)}
    \cup UNION {MoodRules[i].keywords : i \in 1..Len(MoodRules)}

\* the text holds nothing a detector looks for, and no hint names a table entry
FullyUnrecognized(a) ==
  /\ \A w \in RecognizedPhrases : ~StrIn(w, StrLower(a.user_intent))
  /\ ~KnownStyle(a.style_preference)
  /\ a.color_scheme \notin PaletteNames
  /\ ~HasKey(OCCASIONS.d, a.occasion)

UnrecognizedGivesGardenAnalogous ==
  /\ result.value.style.category = "contemporary"
  /\ result.value.style.type = "garden_style"
  /\ result.value.colors.palette = "analogous"

\* C8 as stated: fully unrecognized input falls through to style = garden-style
\* contemporary, palette = analogous and foliage = ruscus.
C8_AsClaimed ==
  (EnhanceReturned /\ FullyUnrecognized(args)) =>
    /\ UnrecognizedGivesGardenAnalogous
    /\ NamesOf(result.value.foliage) = <<"ruscus">>

\* C8 amended: fully unrecognized input falls through to style = garden-style
\* contemporary and palette = analogous, and the foliage is the fallback of that
\* style, eucalyptus and ivy (ruscus is the fallback of the western classical
\* styles, which unrecognized input never selects).
C8_UnrecognizedDefaults ==
  (EnhanceReturned /\ FullyUnrecognized(args)) =>
    /\ UnrecognizedGivesGardenAnalogous
    /\ NamesOf(result.value.foliage) = <<"eucalyptus", "ivy">>
    /\ IsStyleEntry(result.value.style)
    /\ IsPaletteEntry(result.value.colors)

\* an unknown word with unknown hints has run through the whole call
C8_Witness ==
  /\ EnhanceReturned
  /\ args = [user_intent |-> "gift", style_preference |-> "unknown_style",
             occasion |-> "picnic", color_scheme |-> "pastel"]
  /\ FullyUnrecognized(args)
  /\ result.value.style.type = "garden_style"
  /\ result.value.foliage[1].name = "eucalyptus"

\* <<text>> when the segment is present, nothing otherwise
Segment(present, text) == IF present THEN <<text>> ELSE <<>>

\* the segments of the sentence for a mapping result, in their fixed order
SentenceSegments(mapped) ==
  LET focal == NamesOf(mapped.flowers.focal)
      line == NamesOf(mapped.flowers.line)
      filler == NamesOf(mapped.flowers.filler)
      foliage == NamesOf(mapped.foliage)
  IN <<StrTitle(StrReplace(mapped.style.type, "_", " ")) \o " floral arrangement",
       "in " \o mapped.style.container>>
     \o Segment(focal # <<>>, "featuring " \o StrJoin(", ", focal) \o " as focal flowers")
     \o Segment(line # <<>>, "with " \o StrJoin(", ", line) \o " creating vertical lines")
     \o Segment(filler # <<>>, "filled with " \o StrJoin(", ", filler))
     \o Segment(foliage # <<>>, "accented with " \o StrJoin(", ", foliage) \o " foliage")
     \o Segment("colors" \in DOMAIN mapped.colors,
                "in " \o StrJoin(", ", mapped.colors.colors) \o " palette")
     \o <<"using " \o mapped.structure.balance.description,
          "with " \o mapped.structure.movement.description,
          "creating " \o mapped.style.characteristics>>

\* C9: the sentence is the ", "-join, in this order, of the style title, the
\* container, the focal, line and filler segments, the foliage segment, the
\* palette segment, and the balance, movement and characteristics segments;
\* a flower or foliage segment is there exactly when its list is not empty and
\* the palette segment exactly when the palette has a colour list, so no empty
\* clause appears (no line flowers: no "creating vertical lines").
C9_SentenceSegments ==
  EnhanceReturned =>
    LET sentence == result.value.enhanced_prompt
        mapped == locals.mapped
    IN /\ sentence = StrJoin(", ", SentenceSegments(mapped))
       /\ ~StrIn(", ,", sentence)
       /\ StrIn("creating vertical lines", sentence) <=> mapped.flowers.line # <<>>
       /\ StrIn(" as focal flowers", sentence) <=> mapped.flowers.focal # <<>>
       /\ StrIn("filled with ", sentence) <=> mapped.flowers.filler # <<>>
       /\ StrIn(" palette", sentence) <=> "colors" \in DOMAIN mapped.colors

\* one focal flower, no line flower and a palette with colours: the sentence
\* the code builds, with no line clause
C9_Witness ==
  /\ EnhanceReturned
  /\ args.user_intent = "roses winter"
  /\ locals.mapped.flowers.line = <<>>
  /\ result.value.enhanced_prompt =
       "Garden Style floral arrangement, in rustic basket, vintage vessel, "
       \o "featuring roses as focal flowers, accented with eucalyptus, ivy foliage, "
       \o "in deep red, white, evergreen, silver, navy palette, "
       \o "using Unequal but balanced visual weight, with Circular flow around center, "
       \o "creating just-picked feel, varied textures, romantic fullness, organic"

(***************************************************************************)
(* build_comfyui_workflow                                                  *)
(***************************************************************************)

WorkflowDims == {1, 64, 768, 1024}

RECURSIVE Decimal(_)
\* the decimal numeral of a natural number
Decimal(n) ==
  IF n < 10 THEN CharAt(Digits, n + 1)
  ELSE Decimal(n \div 10) \o CharAt(Digits, (n % 10) + 1)

WellFormedSizes == {Decimal(w) \o "x" \o Decimal(h) : w \in WorkflowDims, h \in WorkflowDims}

OtherSizes ==
  {"", "x", "1024", "1024X768", "1024x", "x768", "axb", "1x2x3", "64.0x64", "1024 768",
   " 64 x 64 ", "-64x64", "+64x64", "1_0x20", "1__0x20", "0064x0001"}

WorkflowPrompts == {"", "Dome floral arrangement, in low bowl"}

WorkflowNegativePrompts == {"", "wilted, dead, brown"}

WorkflowModels == {"flux", "sdxl", "sd15", "midjourney"}

WorkflowSteps == {10, 20, 50}

InitWorkflow ==
  /\ op = "build_comfyui_workflow"
  /\ args \in {[prompt |-> p, negative_prompt |-> n, size |-> s, model |-> m, steps |-> k] :
                 p \in WorkflowPrompts, n \in WorkflowNegativePrompts,
                 s \in WellFormedSizes \cup OtherSizes, m \in WorkflowModels,
                 k \in WorkflowSteps}
  /\ locals = NoLocals
  /\ result = Pending

BuildWorkflow ==
  /\ op = "build_comfyui_workflow"
  /\ result = Pending
  /\ result' = build_comfyui_workflow(args.prompt, args.negative_prompt, args.size,
                                      args.model, args.steps)
  /\ UNCHANGED <<op, args, locals>>

NextWorkflow == BuildWorkflow

SpecWorkflow == InitWorkflow /\ [][NextWorkflow]_vars

(***************************************************************************)
(* The workflow graph: seven nodes, one topology                           *)
(***************************************************************************)

WorkflowDone == op = "build_comfyui_workflow" /\ result # Pending

NodeIds == {"1", "2", "3", "4", "5", "6", "7"}

\* the graph has the seven nodes, their class tags and their references
FixedTopology(g) ==
  /\ DOMAIN g = NodeIds
  /\ \A n \in NodeIds : DOMAIN g[n] = {"class_type", "inputs"}
  /\ g["1"].class_type = "CheckpointLoaderSimple"
  /\ DOMAIN g["1"].inputs = {"ckpt_name"}
  /\ g["2"].class_type = "CLIPTextEncode"
  /\ DOMAIN g["2"].inputs = {"text", "clip"}
  /\ g["2"].inputs.clip = <<"1", 1>>
  /\ g["3"].class_type = "CLIPTextEncode"
  /\ DOMAIN g["3"].inputs = {"text", "clip"}
  /\ g["3"].inputs.clip = <<"1", 1>>
  /\ g["4"].class_type = "EmptyLatentImage"
  /\ g["5"].class_type = "KSampler"
  /\ DOMAIN g["5"].inputs = {"seed", "steps", "cfg", "sampler_name", "scheduler", "denoise",
                             "model", "positive", "negative", "latent_image"}
  /\ g["5"].inputs.model = <<"1", 0>>
  /\ g["5"].inputs.positive = <<"2", 0>>
  /\ g["5"].inputs.negative = <<"3", 0>>
  /\ g["5"].inputs.latent_image = <<"4", 0>>
  /\ g["5"].inputs.sampler_name = "euler_ancestral"
  /\ g["6"].class_type = "VAEDecode"
  /\ g["6"].inputs = [samples |-> <<"5", 0>>, vae |-> <<"1", 2>>]
  /\ g["7"].class_type = "SaveImage"
  /\ g["7"].inputs = [filename_prefix |-> "floral_arrangement", images |-> <<"6", 0>>]

\* C10: for a well-formed size "WxH" the graph has exactly the nodes "1".."7"
\* with the same class tags and references; node "2" and "3" carry the two
\* prompts, node "4" inputs are exactly {width: W, height: H, batch_size: 1},
\* node "5" steps is the supplied step count and the sampler constants are
\* seed = -1, cfg = 7.5, scheduler = "normal", denoise = 1.0.
C10_SevenNodeGraph ==
  WorkflowDone =>
    \A w, h \in WorkflowDims :
      args.size = Decimal(w) \o "x" \o Decimal(h) =>
        /\ result.status = "ok"
        /\ FixedTopology(result.value)
        /\ result.value["2"].inputs.text = args.prompt
        /\ result.value["3"].inputs.text = args.negative_prompt
        /\ result.value["4"].inputs = [width |-> w, height |-> h, batch_size |-> 1]
        /\ result.value["5"].inputs.steps = args.steps
        /\ result.value["5"].inputs.seed = -1
        /\ result.value["5"].inputs.cfg = Float("7.5")
        /\ result.value["5"].inputs.scheduler = "normal"
        /\ result.value["5"].inputs.denoise = Float("1.0")

\* a landscape size: width and height land in node "4" in that order
C10_Witness ==
  /\ WorkflowDone
  /\ args.size = "1024x768"
  /\ args.steps = 50
  /\ result.status = "ok"
  /\ result.value["4"].inputs = [width |-> 1024, height |-> 768, batch_size |-> 1]
  /\ result.value["5"].inputs.steps = 50

(***************************************************************************)
(* MCP tool generate_floral_workflow, in its three steps                   *)
(***************************************************************************)

NEGATIVE_PROMPT ==
  "wilted, dead, brown, artificial, plastic, fake flowers, "
  \o "low quality, blurry, distorted, malformed flowers, "
  \o "ugly arrangement, chaotic, messy, cluttered"

USAGE_INSTRUCTIONS ==
  "1. Copy the 'workflow' JSON from this response\n"
  \o "2. In ComfyUI, click 'Load' and paste the JSON\n"
  \o "3. Ensure you have the specified model checkpoint\n"
  \o "4. Click 'Queue Prompt' to generate\n"
  \o "5. Adjust seed value in node 5 for variations"

\* the metadata dict compiled from the mapping result
WorkflowMetadata(mapped) ==
  [arrangement_style |-> mapped.style.category \o " - " \o mapped.style.type,
   focal_flowers |-> RoleNames(mapped.flowers, "focal"),
   all_flowers |-> RoleNames(mapped.flowers, "focal") \o RoleNames(mapped.flowers, "line")
                     \o RoleNames(mapped.flowers, "filler")
                     \o RoleNames(mapped.flowers, "texture"),
   foliage |-> [i \in 1..Len(mapped.foliage) |-> mapped.foliage[i].name],
   color_palette |-> IF "palette" \in DOMAIN mapped.colors
                       THEN mapped.colors.palette ELSE "custom",
   balance |-> mapped.structure.balance.description,
   cultural_tradition |-> IF "philosophy" \in DOMAIN mapped.cultural_context
                            THEN mapped.cultural_context.philosophy ELSE ""]

\* a fallback word, flowers of three roles, mixed case, the waterfall trigger,
\* and texture flowers alone
GenerateIntents ==
  {"bouquet", "roses winter", "Ikebana with stock and thistle", "romantic waterfall",
   "Protea, scabiosa and ranunculus"}

GenerateModels == {"flux", "sdxl", "sd15", "midjourney", "SDXL"}

GenerateSteps == {20, 50}

InitGenerate ==
  /\ op = "generate_floral_workflow"
  /\ args \in {[user_intent |-> t, output_size |-> s, model_preference |-> m, steps |-> k] :
                 t \in GenerateIntents, s \in WellFormedSizes \cup OtherSizes,
                 m \in GenerateModels, k \in GenerateSteps}
  /\ locals = NoLocals
  /\ result = Pending

\* mapped = map_floral_taxonomy(user_intent), with every hint at its default;
\* positive_prompt and negative_prompt
GeneratePrompts ==
  /\ op = "generate_floral_workflow"
  /\ locals = NoLocals
  /\ result = Pending
  /\ LET mapped == map_floral_taxonomy(args.user_intent, "any", "general", "harmonious")
     IN locals' = [mapped |-> mapped,
                   positive_prompt |-> format_prompt_enhancement(mapped),
                   negative_prompt |-> NEGATIVE_PROMPT]
  /\ UNCHANGED <<op, args, result>>

\* workflow = build_comfyui_workflow(...): the ValueError of a malformed size
\* is not caught, so it ends the call
GenerateBuild ==
  /\ op = "generate_floral_workflow"
  /\ locals # NoLocals
  /\ "workflow" \notin DOMAIN locals
  /\ result = Pending
  /\ LET built == build_comfyui_workflow(locals.positive_prompt, locals.negative_prompt,
                                         args.output_size, args.model_preference, args.steps)
     IN \/ /\ built.status = "error"
           /\ result' = built
           /\ UNCHANGED <<op, args, locals>>
        \/ /\ built.status = "ok"
           /\ locals' = [mapped |-> locals.mapped,
                         positive_prompt |-> locals.positive_prompt,
                         negative_prompt |-> locals.negative_prompt,
                         workflow |-> built.value]
           /\ UNCHANGED <<op, args, result>>

\* the metadata and the returned dict
GenerateReturn ==
  /\ op = "generate_floral_workflow"
  /\ locals # NoLocals
  /\ "workflow" \in DOMAIN locals
  /\ result = Pending
  /\ result' = Returned([workflow |-> locals.workflow,
                         positive_prompt |-> locals.positive_prompt,
                         negative_prompt |-> locals.negative_prompt,
                         metadata |-> WorkflowMetadata(locals.mapped),
                         usage_instructions |-> USAGE_INSTRUCTIONS])
  /\ UNCHANGED <<op, args, locals>>

NextGenerate == GeneratePrompts \/ GenerateBuild \/ GenerateReturn

SpecGenerate == InitGenerate /\ [][NextGenerate]_vars

(***************************************************************************)
(* Malformed sizes and model names in generate_floral_workflow             *)
(***************************************************************************)

GenerateDone == op = "generate_floral_workflow" /\ result # Pending

\* the positions of the letter x in a size
XPositions(size) == {i \in 1..Len(size) : CharAt(size, i) = "x"}

\* the two sides of a size with exactly one x
SidesOf(size) ==
  LET i == CHOOSE j \in XPositions(size) : TRUE
  IN <<SubSeq(size, 1, i - 1), SubSeq(size, i + 1, Len(size))>>

\* a side that holds something that cannot be part of an integer: a letter, a
\* dot, or any character other than a digit, a sign, an underscore or blank
NonNumeric(side) ==
  \E i \in 1..Len(side) : ~IsDigit(CharAt(side, i)) /\ CharAt(side, i) \notin {"+", "-", "_", " "}

\* no "x", more than one "x" (an upper-case "X" is no "x"), an empty or a
\* non-numeric side
MalformedAsListed(size) ==
  \/ Cardinality(XPositions(size)) # 1
  \/ \E k \in 1..2 : SidesOf(size)[k] = "" \/ NonNumeric(SidesOf(size)[k])

\* the text is two integers around one "x", as int() reads integers
TwoIntegers(size) ==
  /\ Cardinality(XPositions(size)) = 1
  /\ \A k \in 1..2 : PyInt(SidesOf(size)[k]).ok

\* C11: for every size that is not exactly two integers separated by a literal
\* "x" (no "x", several "x", upper-case "X", an empty or non-numeric side) the
\* call ends in an error and returns nothing: no workflow, no partial result;
\* and a call that returns carries the width and height written in the size,
\* never a default.
C11_MalformedSizeRaises ==
  GenerateDone =>
    /\ MalformedAsListed(args.output_size) => ~TwoIntegers(args.output_size)
    /\ ~TwoIntegers(args.output_size) =>
         /\ result = Raised("ValueError")
         /\ DOMAIN result = {"status", "error"}
         /\ "workflow" \notin DOMAIN locals
    /\ TwoIntegers(args.output_size) =>
         /\ result.status = "ok"
         /\ result.value.workflow["4"].inputs =
              [width |-> PyInt(SidesOf(args.output_size)[1]).n,
               height |-> PyInt(SidesOf(args.output_size)[2]).n,
               batch_size |-> 1]

\* an upper-case separator: the call has ended in the error, with the prompts
\* already built and no workflow
C11_Witness ==
  /\ GenerateDone
  /\ args.output_size = "1024X768"
  /\ MalformedAsListed(args.output_size)
  /\ result = Raised("ValueError")
  /\ locals # NoLocals
  /\ "workflow" \notin DOMAIN locals

CheckpointOf(model) ==
  CASE model = "flux" -> "flux1-dev.safetensors"
    [] model = "sdxl" -> "sd_xl_base_1.0.safetensors"
    [] model = "sd15" -> "v1-5-pruned-emaonly.safetensors"
    [] OTHER -> "flux1-dev.safetensors"

\* C12: node "1"'s checkpoint filename is the flux, sdxl or sd15 checkpoint
\* when the model name is exactly "flux", "sdxl" or "sd15" and the flux
\* checkpoint for every other name; the model name never makes the call fail
\* (a call with a well-formed size returns whatever the model name is).
C12_UnknownModelIsFlux ==
  GenerateDone =>
    /\ result.status = "ok" =>
         result.value.workflow["1"] =
           [class_type |-> "CheckpointLoaderSimple",
            inputs |-> [ckpt_name |-> CheckpointOf(args.model_preference)]]
    /\ args.output_size \in WellFormedSizes => result.status = "ok"

\* an unknown model name, and one that differs from a known one by case only
C12_Witness ==
  /\ GenerateDone
  /\ args.model_preference = "SDXL"
  /\ args.output_size = "768x1024"
  /\ result.status = "ok"
  /\ result.value.workflow["1"].inputs.ckpt_name = "flux1-dev.safetensors"

(***************************************************************************)
(* MCP tool suggest_flowers_for_occasion                                   *)
(***************************************************************************)

\* suggest_flowers_for_occasion that looks the occasion up in lower case
suggest_flowers_for_occasion_any_case(occasion) ==
  IF HasKey(OCCASIONS.d, StrLower(occasion))
    THEN [occasion |-> occasion, recommendations |-> Get(OCCASIONS.d, StrLower(occasion))]
    ELSE [occasion |-> occasion,
          error |-> "Occasion '" \o occasion \o "' not found",
          available_occasions |-> Keys(OCCASIONS.d)]

suggest_flowers_for_occasion(occasion) ==
  IF HasKey(OCCASIONS.d, occasion)
    THEN [occasion |-> occasion, recommendations |-> Get(OCCASIONS.d, occasion)]
    ELSE [occasion |-> occasion,
          error |-> "Occasion '" \o occasion \o "' not found",
          available_occasions |-> Keys(OCCASIONS.d)]

\* the four keys, sub-keys and values of the table, and names it does not hold
OccasionWords ==
  {"wedding", "funeral", "celebration", "everyday", "birthday", "ceremony", "romantic"}

OccasionSingles ==
  {"", "general", "not_a_real_occasion", "Wedding", "EVERYDAY", "weddings", "wedding ",
   "standing_spray", "garden-style", "get_well", "large, arch", "'", "{", "occasion"}

SuggestOccasions == Texts(OccasionWords) \cup OccasionSingles

InitSuggest ==
  /\ op = "suggest_flowers_for_occasion"
  /\ args \in {[occasion |-> o] : o \in SuggestOccasions}
  /\ locals = NoLocals
  /\ result = Pending

SuggestForOccasion ==
  /\ op = "suggest_flowers_for_occasion"
  /\ result = Pending
  /\ result' = Returned(suggest_flowers_for_occasion(args.occasion))
  /\ UNCHANGED <<op, args, locals>>

NextSuggest == SuggestForOccasion

SpecSuggest == InitSuggest /\ [][NextSuggest]_vars

SuggestDone == op = "suggest_flowers_for_occasion" /\ result # Pending

TopLevelOccasions == <<"wedding", "funeral", "celebration", "everyday">>

\* the sub-table of a top-level occasion, read off the table by position
OccasionSubTable(name) ==
  OCCASIONS.d[CHOOSE i \in 1..4 : TopLevelOccasions[i] = name].v

\* C13: for one of the four top-level keys the call returns {occasion,
\* recommendations = the occasion's sub-table}; for every other name it returns
\* (as a value, not an exception) an error record whose available_occasions is
\* exactly wedding, funeral, celebration, everyday.
C13_SuggestOrErrorRecord ==
  SuggestDone =>
    /\ result.status = "ok"
    /\ result.value.occasion = args.occasion
    /\ IF \E i \in 1..4 : TopLevelOccasions[i] = args.occasion
         THEN result.value = [occasion |-> args.occasion,
                              recommendations |-> OccasionSubTable(args.occasion)]
         ELSE /\ DOMAIN result.value = {"occasion", "error", "available_occasions"}
              /\ result.value.available_occasions = TopLevelOccasions
              /\ result.value.error = "Occasion '" \o args.occasion \o "' not found"

\* a known occasion in another case is not a key: the error record comes back
C13_Witness ==
  /\ SuggestDone
  /\ args.occasion = "Wedding"
  /\ result.status = "ok"
  /\ result.value.error = "Occasion 'Wedding' not found"
  /\ result.value.available_occasions = <<"wedding", "funeral", "celebration", "everyday">>

(***************************************************************************)
(* End to end: a romantic spring wedding centerpiece                       *)
(***************************************************************************)

WeddingCenterpieceCall ==
  [user_intent |-> "romantic spring wedding centerpiece", style_preference |-> "any",
   occasion |-> "wedding", color_scheme |-> "romantic"]

\* the flowers are the curated set of fallback branch b
IsFallbackSet(flowers, b) ==
  /\ NamesOf(flowers.focal) = FallbackBranches[b].focal
  /\ NamesOf(flowers.filler) = FallbackBranches[b].filler
  /\ NamesOf(flowers.texture) = FallbackBranches[b].texture
  /\ flowers.line = <<>>

\* C14: enhance_floral_prompt("romantic spring wedding centerpiece",
\* occasion = "wedding", color_scheme = "romantic") selects the garden style or
\* the dome style, returns the wedding (first) or the romantic (second)
\* fallback flower set, selects the romantic palette, and its sentence is not
\* empty and contains "palette".
C14_WeddingCenterpiece ==
  (EnhanceReturned /\ args = WeddingCenterpieceCall) =>
    /\ IsStyleEntry(result.value.style)
    /\ result.value.style.type \in {"garden_style", "dome"}
    /\ IsFallbackSet(result.value.flowers, 1) \/ IsFallbackSet(result.value.flowers, 2)
    /\ result.value.colors.palette = "romantic"
    /\ result.value.colors = PaletteEntry("romantic")
    /\ result.value.enhanced_prompt # ""
    /\ StrIn("palette", result.value.enhanced_prompt)

\* the call has returned: dome (through "centerpiece"), the wedding set and the
\* romantic palette
C14_Witness ==
  /\ EnhanceReturned
  /\ args = WeddingCenterpieceCall
  /\ result.value.style.type = "dome"
  /\ NamesOf(result.value.flowers.focal) = <<"garden roses", "peonies">>
  /\ result.value.colors.palette = "romantic"
  /\ StrIn(" palette, using ", result.value.enhanced_prompt)

(***************************************************************************)
(* map_structure, for the styles of the table and for partial records      *)
(***************************************************************************)

\* marks a field that the record does not have
Absent == "<absent>"

EmptyDict == [f \in {} |-> f]

\* the dict with the fields that are not Absent
StyleWith(category, type, balance) ==
  LET part(field, value) == IF value = Absent THEN EmptyDict ELSE (field :> value)
  IN part("category", category) @@ part("type", type) @@ part("balance", balance)

StructureCategories == {Absent, "contemporary", "ikebana", "western_classical", "tropical"}

StructureTypes ==
  {Absent, "minimalist", "garden_style", "cascade", "vertical", "horizontal", "dome"}

StructureBalances ==
  {Absent, "symmetrical", "radial symmetrical", "asymmetrical", "symmetrical or asymmetrical",
   "often asymmetrical", "Symmetrical", "bilateral symmetrical"}

StructureStyles ==
  TableStyles
    \cup {StyleWith(c, t, b) : c \in StructureCategories, t \in StructureTypes,
                               b \in StructureBalances}

StructureColors == {EmptyDict, PaletteEntry("analogous"), PaletteEntry("monochromatic")}

InitStructure ==
  /\ op = "map_structure"
  /\ args \in {[style |-> s, colors |-> c] : s \in StructureStyles, c \in StructureColors}
  /\ locals = NoLocals
  /\ result = Pending

MapStructure ==
  /\ op = "map_structure"
  /\ result = Pending
  /\ result' = Returned(map_structure(args.style, args.colors))
  /\ UNCHANGED <<op, args, locals>>

NextStructure == MapStructure

SpecStructure == InitStructure /\ [][NextStructure]_vars

StructureDone == op = "map_structure" /\ result # Pending

\* the entry of a technique family that has this description
TechniqueNamed(family, name) ==
  LET entries == Get(STRUCTURAL_TECHNIQUES, family)
  IN entries[CHOOSE i \in 1..Len(entries) : entries[i].k = name].v

\* the style's balance string, if it has one
BalanceString(style) == IF "balance" \in DOMAIN style THEN style.balance ELSE Absent

\* C15: the balance technique is the symmetrical one (radial; the bilateral
\* entry is its sibling) exactly when the style's balance string is exactly
\* "symmetrical" or "radial symmetrical"; for every other string, also
\* "symmetrical or asymmetrical", "often asymmetrical" and a missing balance
\* field, it is the asymmetrical technique.
C15_BalanceByExactString ==
  StructureDone =>
    IF BalanceString(args.style) \in {"symmetrical", "radial symmetrical"}
      THEN /\ result.value.balance = TechniqueNamed("balance", "symmetrical_radial")
           /\ result.value.balance.description = "Equal visual weight radiating from center"
      ELSE /\ result.value.balance = TechniqueNamed("balance", "asymmetrical")
           /\ result.value.balance.description = "Unequal but balanced visual weight"

\* a style whose balance string holds "symmetrical" without being it
C15_Witness ==
  /\ StructureDone
  /\ args.style = StyleEntry("western_classical", "vertical")
  /\ args.style.balance = "symmetrical or asymmetrical"
  /\ result.value.balance.description = "Unequal but balanced visual weight"

IsStyle(style, category, type) ==
  /\ "category" \in DOMAIN style /\ style.category = category
  /\ "type" \in DOMAIN style /\ style.type = type

\* the technique a field gives a style when the field special-cases the two
\* contemporary styles
SpecialCased(style, minimalist, garden, fallback) ==
  IF IsStyle(style, "contemporary", "minimalist") THEN minimalist
  ELSE IF IsStyle(style, "contemporary", "garden_style") THEN garden
  ELSE fallback

DensityAsClaimed ==
  result.value.density =
    SpecialCased(args.style, TechniqueNamed("density", "airy_spacious"),
                 TechniqueNamed("density", "packed_abundant"),
                 TechniqueNamed("density", "clustered_with_voids"))

\* C16 as stated: focal and density both special-case (contemporary,
\* minimalist) and (contemporary, garden_style): each field gives each of the
\* two styles a technique of its own, different from the fallback that every
\* other style gets.
C16_AsClaimed ==
  StructureDone =>
    /\ DensityAsClaimed
    /\ \E minimalist, garden \in {e.v : e \in {Get(STRUCTURAL_TECHNIQUES, "focal_points")[i] :
                                                 i \in 1..3}} :
         /\ minimalist # TechniqueNamed("focal_points", "multiple_secondary")
         /\ garden # TechniqueNamed("focal_points", "multiple_secondary")
         /\ result.value.focal =
              SpecialCased(args.style, minimalist, garden,
                           TechniqueNamed("focal_points", "multiple_secondary"))

\* C16 amended: density special-cases exactly (contemporary, minimalist) ->
\* airy-spacious and (contemporary, garden_style) -> packed-abundant, every
\* other style -> clustered-with-voids; focal special-cases (contemporary,
\* minimalist) alone -> single-dominant, and every other style, also
\* (contemporary, garden_style), -> multiple-secondary.
C16_FocalAndDensity ==
  StructureDone =>
    /\ DensityAsClaimed
    /\ result.value.focal =
         SpecialCased(args.style, TechniqueNamed("focal_points", "single_dominant"),
                      TechniqueNamed("focal_points", "multiple_secondary"),
                      TechniqueNamed("focal_points", "multiple_secondary"))

\* the garden style: its own density, the shared focal technique
C16_Witness ==
  /\ StructureDone
  /\ args.style = StyleEntry("contemporary", "garden_style")
  /\ result.value.density = TechniqueNamed("density", "packed_abundant")
  /\ result.value.focal = TechniqueNamed("focal_points", "multiple_secondary")

MapOccasionTokens ==
  Texts(OccasionWords) \cup OccasionSingles \cup {"sympathy", "elegant", "home_decor", "casual"}

MapOccasionStyles == {EmptyDict, StyleEntry("contemporary", "garden_style")}

InitOccasion ==
  /\ op = "map_occasion"
  /\ args \in {[occasion |-> o, style |-> s] : o \in MapOccasionTokens, s \in MapOccasionStyles}
  /\ locals = NoLocals
  /\ result = Pending

MapOccasion ==
  /\ op = "map_occasion"
  /\ result = Pending
  /\ result' = Returned(map_occasion(args.occasion, args.style))
  /\ UNCHANGED <<op, args, locals>>

NextOccasion == MapOccasion

SpecOccasion == InitOccasion /\ [][NextOccasion]_vars

OccasionDone == op = "map_occasion" /\ result # Pending

\* the token occurs in the lower-cased str() of the i-th occasion entry
TokenInEntry(token, i) == StrIn(token, StrLower(PyRepr(OCCASIONS.d[i].v)))

GenericOccasion ==
  PyDict(<<[k |-> "occasion", v |-> PyStr("general")],
           [k |-> "notes", v |-> PyStr("versatile arrangement suitable for various contexts")]>>)

\* C19: a top-level key gives the occasion's own sub-table; otherwise a token
\* that is a substring of the lower-cased stringified entry of some occasion
\* gives the one-key mapping {name: entry} of the first such occasion in table
\* order; otherwise the generic record {"occasion": "general", notes} comes
\* back, as it does for the default occasion "general".
C19_OccasionLookup ==
  OccasionDone =>
    LET token == args.occasion
        isKey == \E i \in 1..4 : TopLevelOccasions[i] = token
        holders == {i \in 1..4 : TokenInEntry(token, i)}
    IN /\ result.status = "ok"
       /\ isKey => result.value = OccasionSubTable(token)
       /\ (~isKey /\ holders # {}) =>
            \E i \in holders :
              /\ \A h \in holders : i <= h
              /\ result.value = PyDict(<<[k |-> TopLevelOccasions[i], v |-> OCCASIONS.d[i].v]>>)
       /\ (~isKey /\ holders = {}) => result.value = GenericOccasion
       /\ token = "general" => result.value = GenericOccasion
       /\ token = "romantic" => Keys(result.value.d) = <<"wedding">>
       /\ token = "birthday" => Keys(result.value.d) = <<"celebration">>

\* "romantic" is no key and occurs under wedding and under celebration: the
\* one-key mapping of wedding, the first of the two, has come back
C19_Witness ==
  /\ OccasionDone
  /\ args.occasion = "romantic"
  /\ TokenInEntry("romantic", 1) /\ TokenInEntry("romantic", 3)
  /\ Keys(result.value.d) = <<"wedding">>
  /\ result.value.d[1].v = OccasionSubTable("wedding")

(***************************************************************************)
(* get_cultural_context                                                    *)
(***************************************************************************)

InitCulture ==
  /\ op = "get_cultural_context"
  /\ args \in {[style |-> s] : s \in StructureStyles}
  /\ locals = NoLocals
  /\ result = Pending

GetCulturalContext ==
  /\ op = "get_cultural_context"
  /\ result = Pending
  /\ result' = Returned(get_cultural_context(args.style))
  /\ UNCHANGED <<op, args, locals>>

NextCulture == GetCulturalContext

SpecCulture == InitCulture /\ [][NextCulture]_vars

CultureDone == op = "get_cultural_context" /\ result # Pending

\* the tradition stored under a key of CULTURAL_TRADITIONS
Tradition(name) ==
  CULTURAL_TRADITIONS[CHOOSE i \in 1..Len(CULTURAL_TRADITIONS) :
                        CULTURAL_TRADITIONS[i].k = name].v

CategoryOf(style) == IF "category" \in DOMAIN style THEN style.category ELSE Absent

TypeOf(style) == IF "type" \in DOMAIN style THEN style.type ELSE Absent

\* C20: every style maps to one tradition: any ikebana style -> Japanese
\* ikebana; (contemporary, garden_style) -> European garden; every other
\* contemporary style -> contemporary western; every other style -> European
\* garden.  The Victorian tradition is never returned.
C20_TraditionByStyle ==
  CultureDone =>
    /\ result.status = "ok"
    /\ result.value =
         IF CategoryOf(args.style) = "ikebana" THEN Tradition("japanese_ikebana")
         ELSE IF CategoryOf(args.style) = "contemporary"
           THEN IF TypeOf(args.style) = "garden_style"
                  THEN Tradition("european_garden")
                  ELSE Tradition("contemporary_western")
         ELSE Tradition("european_garden")
    /\ result.value # Tradition("victorian")
    /\ result.value.philosophy # "language of flowers, tight structure, formal beauty"

\* a western classical style has been given the European garden tradition
C20_Witness ==
  /\ CultureDone
  /\ args.style = StyleEntry("western_classical", "hogarth")
  /\ result.value.philosophy = "abundance, romance, natural beauty"

(***************************************************************************)
(* The tools as whole calls, and the catalogue tools                       *)
(***************************************************************************)

enhance_floral_prompt(user_intent, style_preference, occasion, color_scheme) ==
  LET mapped == map_floral_taxonomy(user_intent, style_preference, occasion, color_scheme)
      enhanced_prompt == format_prompt_enhancement(mapped)
  IN Returned([user_intent |-> user_intent,
               style |-> mapped.style,
               flowers |-> mapped.flowers,
               foliage |-> mapped.foliage,
               colors |-> mapped.colors,
               structure |-> mapped.structure,
               occasion |-> mapped.occasion,
               cultural_context |-> mapped.cultural_context,
               enhanced_prompt |-> enhanced_prompt,
               synthesis_instruction |-> SYNTHESIS_INSTRUCTION])

generate_floral_workflow(user_intent, output_size, model_preference, steps) ==
  LET mapped == map_floral_taxonomy(user_intent, "any", "general", "harmonious")
      positive_prompt == format_prompt_enhancement(mapped)
      built == build_comfyui_workflow(positive_prompt, NEGATIVE_PROMPT, output_size,
                                      model_preference, steps)
  IN IF built.status = "error" THEN built
     ELSE Returned([workflow |-> built.value,
                    positive_prompt |-> positive_prompt,
                    negative_prompt |-> NEGATIVE_PROMPT,
                    metadata |-> WorkflowMetadata(mapped),
                    usage_instructions |-> USAGE_INSTRUCTIONS])

\* the module-level tables, as the process holds them after import
Tables ==
  [ARRANGEMENT_STYLES |-> ARRANGEMENT_STYLES,
   FLOWERS_BY_ROLE |-> FLOWERS_BY_ROLE,
   FOLIAGE_TYPES |-> FOLIAGE_TYPES,
   COLOR_PALETTES |-> COLOR_PALETTES,
   STRUCTURAL_TECHNIQUES |-> STRUCTURAL_TECHNIQUES,
   OCCASIONS |-> OCCASIONS,
   CULTURAL_TRADITIONS |-> CULTURAL_TRADITIONS]

\* the six catalogue tools return the table they name, as the process holds it
list_arrangement_styles(tables) == tables.ARRANGEMENT_STYLES

list_flowers_by_role(tables) == tables.FLOWERS_BY_ROLE

list_color_palettes(tables) == tables.COLOR_PALETTES

list_foliage_types(tables) == tables.FOLIAGE_TYPES

get_cultural_traditions(tables) == tables.CULTURAL_TRADITIONS

get_structural_techniques(tables) == tables.STRUCTURAL_TECHNIQUES

get_server_info ==
  [name |-> "Floral Arrangement Aesthetics MCP Server",
   version |-> "1.0.0",
   description |-> "Dual-purpose server for floral arrangement prompt enhancement and ComfyUI workflow generation",
   architecture |->
     [layer_1 |-> "Comprehensive floral taxonomy (deterministic, zero LLM cost)",
      layer_2 |-> "Structural mapping and technique selection",
      layer_3 |-> "Cultural and aesthetic context synthesis (Claude integration)"],
   primary_tools |->
     [enhance_floral_prompt |-> "Map user intent to professional floral vocabulary for prompt enhancement",
      generate_floral_workflow |-> "Create complete ComfyUI workflow JSON with floral-enhanced prompts"],
   taxonomy_coverage |->
     [arrangement_styles |-> "15 styles across 3 traditions (Ikebana, Western Classical, Contemporary)",
      flowers |-> "20+ flowers organized by role (focal, line, filler, texture)",
      foliage |-> "10+ foliage types across 3 categories (structural, accent, dramatic)",
      color_palettes |-> "10 palettes including theory-based and seasonal",
      structural_techniques |-> "6 technique categories with detailed specifications",
      cultural_traditions |-> "4 major traditions with philosophies and principles"],
   cost_optimization |-> "60-80% cost savings through deterministic taxonomy mapping + single LLM synthesis",
   usage_pattern |-> "User → Claude (intent extraction) → MCP (deterministic mapping) → Claude (creative synthesis)"]

(***************************************************************************)
(* The server: calls in sequence and interleaved                           *)
(*                                                                         *)
(* Here op, args and result hold one value per call in progress (a slot),  *)
(* and locals holds the tables of the process and, per slot, the local     *)
(* variables of its call.                                                  *)
(***************************************************************************)

ServerSlots == {"first", "second"}

CatalogueTools ==
  {"list_arrangement_styles", "list_flowers_by_role", "list_color_palettes",
   "list_foliage_types", "get_cultural_traditions", "get_structural_techniques"}

\* the calls a client makes: every tool, with arguments that succeed and
\* arguments that end in an error
ServerCalls ==
  {[name |-> "enhance_floral_prompt",
    args |-> [user_intent |-> t, style_preference |-> "any", occasion |-> o,
              color_scheme |-> "harmonious"]] :
     t \in {"roses winter", "Ikebana with stock"}, o \in {"general", "wedding"}}
  \cup {[name |-> "generate_floral_workflow",
         args |-> [user_intent |-> t, output_size |-> s, model_preference |-> "flux",
                   steps |-> 20]] :
          t \in {"roses winter", "bouquet"}, s \in {"1024x768", "1024X768"}}
  \cup {[name |-> n, args |-> EmptyDict] : n \in CatalogueTools \cup {"get_server_info"}}
  \cup {[name |-> "suggest_flowers_for_occasion", args |-> [occasion |-> o]] :
          o \in {"funeral", "not_a_real_occasion"}}

\* FrameOf for locals kept at module level, one set per tool: a call sees
\* what another call of the same tool has stored
FrameOf_module_level(frames, slot) ==
  LET others == {s \in ServerSlots \ {slot} : op[s] = op[slot] /\ frames[s] # NoLocals}
  IN IF others # {} THEN frames[CHOOSE s \in others : TRUE] ELSE frames[slot]

\* the local variables of the call in a slot
FrameOf(frames, slot) == frames[slot]

InitServer ==
  /\ op = [slot \in ServerSlots |-> "idle"]
  /\ args = [slot \in ServerSlots |-> EmptyDict]
  /\ locals = [tables |-> Tables, frames |-> [slot \in ServerSlots |-> NoLocals]]
  /\ result = [slot \in ServerSlots |-> Pending]

\* a client calls a tool in a slot that is idle or whose call has ended
ServerBegin(slot) ==
  /\ op[slot] = "idle" \/ result[slot] # Pending
  /\ \E call \in ServerCalls :
       /\ op' = [op EXCEPT ![slot] = call.name]
       /\ args' = [args EXCEPT ![slot] = call.args]
  /\ locals' = [locals EXCEPT !.frames[slot] = NoLocals]
  /\ result' = [result EXCEPT ![slot] = Pending]

ServerEnhanceMap(slot) ==
  /\ op[slot] = "enhance_floral_prompt"
  /\ result[slot] = Pending
  /\ FrameOf(locals.frames, slot) = NoLocals
  /\ locals' = [locals EXCEPT !.frames[slot] =
                  [mapped |-> map_floral_taxonomy(args[slot].user_intent,
                                                  args[slot].style_preference,
                                                  args[slot].occasion,
                                                  args[slot].color_scheme)]]
  /\ UNCHANGED <<op, args, result>>

ServerEnhanceReturn(slot) ==
  /\ op[slot] = "enhance_floral_prompt"
  /\ result[slot] = Pending
  /\ FrameOf(locals.frames, slot) # NoLocals
  /\ LET mapped == FrameOf(locals.frames, slot).mapped
     IN result' = [result EXCEPT ![slot] =
                     Returned([user_intent |-> args[slot].user_intent,
                               style |-> mapped.style,
                               flowers |-> mapped.flowers,
                               foliage |-> mapped.foliage,
                               colors |-> mapped.colors,
                               structure |-> mapped.structure,
                               occasion |-> mapped.occasion,
                               cultural_context |-> mapped.cultural_context,
                               enhanced_prompt |-> format_prompt_enhancement(mapped),
                               synthesis_instruction |-> SYNTHESIS_INSTRUCTION])]
  /\ UNCHANGED <<op, args, locals>>

ServerGeneratePrompts(slot) ==
  /\ op[slot] = "generate_floral_workflow"
  /\ result[slot] = Pending
  /\ FrameOf(locals.frames, slot) = NoLocals
  /\ LET mapped == map_floral_taxonomy(args[slot].user_intent, "any", "general", "harmonious")
     IN locals' = [locals EXCEPT !.frames[slot] =
                     [mapped |-> mapped,
                      positive_prompt |-> format_prompt_enhancement(mapped),
                      negative_prompt |-> NEGATIVE_PROMPT]]
  /\ UNCHANGED <<op, args, result>>

ServerGenerateBuild(slot) ==
  /\ op[slot] = "generate_floral_workflow"
  /\ result[slot] = Pending
  /\ FrameOf(locals.frames, slot) # NoLocals
  /\ "workflow" \notin DOMAIN FrameOf(locals.frames, slot)
  /\ LET frame == FrameOf(locals.frames, slot)
         built == build_comfyui_workflow(frame.positive_prompt, frame.negative_prompt,
                                         args[slot].output_size,
                                         args[slot].model_preference, args[slot].steps)
     IN \/ /\ built.status = "error"
           /\ result' = [result EXCEPT ![slot] = built]
           /\ UNCHANGED <<op, args, locals>>
        \/ /\ built.status = "ok"
           /\ locals' = [locals EXCEPT !.frames[slot] =
                           [mapped |-> frame.mapped,
                            positive_prompt |-> frame.positive_prompt,
                            negative_prompt |-> frame.negative_prompt,
                            workflow |-> built.value]]
           /\ UNCHANGED <<op, args, result>>

ServerGenerateReturn(slot) ==
  /\ op[slot] = "generate_floral_workflow"
  /\ result[slot] = Pending
  /\ FrameOf(locals.frames, slot) # NoLocals
  /\ "workflow" \in DOMAIN FrameOf(locals.frames, slot)
  /\ LET frame == FrameOf(locals.frames, slot)
     IN result' = [result EXCEPT ![slot] =
                     Returned([workflow |-> frame.workflow,
                               positive_prompt |-> frame.positive_prompt,
                               negative_prompt |-> frame.negative_prompt,
                               metadata |-> WorkflowMetadata(frame.mapped),
                               usage_instructions |-> USAGE_INSTRUCTIONS])]
  /\ UNCHANGED <<op, args, locals>>

\* a catalogue tool returns its table
ServerCatalogue(slot) ==
  /\ op[slot] \in CatalogueTools
  /\ result[slot] = Pending
  /\ result' = [result EXCEPT ![slot] =
       Returned(CASE op[slot] = "list_arrangement_styles" -> list_arrangement_styles(locals.tables)
                  [] op[slot] = "list_flowers_by_role" -> list_flowers_by_role(locals.tables)
                  [] op[slot] = "list_color_palettes" -> list_color_palettes(locals.tables)
                  [] op[slot] = "list_foliage_types" -> list_foliage_types(locals.tables)
                  [] op[slot] = "get_cultural_traditions" -> get_cultural_traditions(locals.tables)
                  [] op[slot] = "get_structural_techniques" ->
                       get_structural_techniques(locals.tables))]
  /\ UNCHANGED <<op, args, locals>>

ServerSuggest(slot) ==
  /\ op[slot] = "suggest_flowers_for_occasion"
  /\ result[slot] = Pending
  /\ result' = [result EXCEPT ![slot] =
                  Returned(suggest_flowers_for_occasion(args[slot].occasion))]
  /\ UNCHANGED <<op, args, locals>>

ServerInfo(slot) ==
  /\ op[slot] = "get_server_info"
  /\ result[slot] = Pending
  /\ result' = [result EXCEPT ![slot] = Returned(get_server_info)]
  /\ UNCHANGED <<op, args, locals>>

NextServer ==
  \E slot \in ServerSlots :
    \/ ServerBegin(slot)
    \/ ServerEnhanceMap(slot)
    \/ ServerEnhanceReturn(slot)
    \/ ServerGeneratePrompts(slot)
    \/ ServerGenerateBuild(slot)
    \/ ServerGenerateReturn(slot)
    \/ ServerCatalogue(slot)
    \/ ServerSuggest(slot)
    \/ ServerInfo(slot)

SpecServer == InitServer /\ [][NextServer]_vars

(***************************************************************************)
(* No call changes the tables or another call's result                     *)
(***************************************************************************)

\* what the call returns when it is the only call the process ever serves
CallAlone(name, a) ==
  CASE name = "enhance_floral_prompt" ->
         enhance_floral_prompt(a.user_intent, a.style_preference, a.occasion, a.color_scheme)
    [] name = "generate_floral_workflow" ->
         generate_floral_workflow(a.user_intent, a.output_size, a.model_preference, a.steps)
    [] name = "list_arrangement_styles" -> Returned(ARRANGEMENT_STYLES)
    [] name = "list_flowers_by_role" -> Returned(FLOWERS_BY_ROLE)
    [] name = "list_color_palettes" -> Returned(COLOR_PALETTES)
    [] name = "list_foliage_types" -> Returned(FOLIAGE_TYPES)
    [] name = "get_cultural_traditions" -> Returned(CULTURAL_TRADITIONS)
    [] name = "get_structural_techniques" -> Returned(STRUCTURAL_TECHNIQUES)
    [] name = "suggest_flowers_for_occasion" ->
         Returned(suggest_flowers_for_occasion(a.occasion))
    [] name = "get_server_info" -> Returned(get_server_info)

\* C18: after any sequence and any interleaving of calls to the tools, also
\* calls that end in an error, the seven tables equal their initial contents,
\* and every call that has ended has the result that its arguments alone
\* determine, whatever ran before it or alongside it.
C18_TablesAndResultsUnaffected ==
  /\ locals.tables = Tables
  /\ \A slot \in ServerSlots :
       result[slot] # Pending => result[slot] = CallAlone(op[slot], args[slot])

\* one call has ended in the size error, and a call of the same tool for
\* another intent, served alongside it, has returned its own workflow
C18_Witness ==
  /\ op["first"] = "generate_floral_workflow"
  /\ args["first"].user_intent = "roses winter"
  /\ result["first"] = Raised("ValueError")
  /\ locals.frames["first"] # NoLocals
  /\ op["second"] = "generate_floral_workflow"
  /\ args["second"].user_intent = "bouquet"
  /\ result["second"].status = "ok"
  /\ StrIn("waxflower", result["second"].value.positive_prompt)
  /\ locals.tables = Tables

(***************************************************************************)
(* Letter case of the intent                                               *)
(***************************************************************************)

\* one keyword of each detector, typed with capitals
RecaseTexts ==
  Texts({"Ikebana", "ROSES", "iVy", "Winter"}) \cup {"ROSES and Ivy", "Wedding In FALL"}

InitRecase ==
  /\ op = "enhance_floral_prompt"
  /\ args \in {[user_intent |-> t, style_preference |-> p, occasion |-> o, color_scheme |-> c] :
                 t \in RecaseTexts, p \in EnhanceStylePreferences,
                 o \in EnhanceOccasions, c \in EnhanceColorSchemes}
  /\ locals = NoLocals
  /\ result = Pending

\* the two steps of enhance_floral_prompt, on intents typed with capitals
SpecRecase == InitRecase /\ [][NextEnhance]_vars

RECURSIVE StrUpper(_)
\* s.upper(), on ASCII text
StrUpper(s) ==
  IF Len(s) = 0 THEN ""
  ELSE IF Len(s) = 1 THEN UpperChar(s)
  ELSE LET half == Len(s) \div 2
       IN StrUpper(SubSeq(s, 1, half)) \o StrUpper(SubSeq(s, half + 1, Len(s)))

RECURSIVE SwapFrom(_, _, _)
\* characters from..to of s with the letters at odd positions upper-cased and
\* the letters at even positions lower-cased
SwapFrom(s, from, to) ==
  IF from > to THEN ""
  ELSE IF from = to THEN
    (IF from % 2 = 1 THEN UpperChar(CharAt(s, from)) ELSE LowerChar(CharAt(s, from)))
  ELSE LET mid == (from + to) \div 2
       IN SwapFrom(s, from, mid) \o SwapFrom(s, mid + 1, to)

\* other spellings of a text that differ from it in letter case only
Recasings(text) ==
  {StrLower(text), StrUpper(text), StrTitle(text), SwapFrom(text, 1, Len(text))}

\* the fields of an enhance_floral_prompt result that the mapping fills
MappedFields(r) ==
  <<r.style, r.flowers, r.foliage, r.colors, r.structure, r.occasion,
    r.cultural_context, r.enhanced_prompt>>

\* C21: matching ignores the letter case of the intent and the intent is
\* echoed as supplied: the result of a call has user_intent equal to the
\* argument, and the call on any re-casing of the intent, with the same hints,
\* returns the same style, flowers, foliage, colors, structure, occasion,
\* cultural_context and enhanced_prompt, and echoes the re-cased intent.
C21_CaseInsensitiveEcho ==
  EnhanceReturned =>
    /\ result.value.user_intent = args.user_intent
    /\ \A recased \in Recasings(args.user_intent) :
         LET other == enhance_floral_prompt(recased, args.style_preference,
                                            args.occasion, args.color_scheme)
         IN /\ other.status = "ok"
            /\ MappedFields(other.value) = MappedFields(result.value)
            /\ other.value.user_intent = recased

\* a call whose intent has capitals in its keywords returned, with the
\* keywords matched and the capitals kept in the echo
C21_Witness ==
  /\ EnhanceReturned
  /\ args.user_intent = "ROSES and Ivy"
  /\ result.value.user_intent = "ROSES and Ivy"
  /\ StrLower(args.user_intent) # args.user_intent
  /\ \E i \in 1..Len(result.value.flowers.focal) :
       result.value.flowers.focal[i].name = "roses"
  /\ \E i \in 1..Len(result.value.foliage) : result.value.foliage[i].name = "ivy"

(***************************************************************************)
(* The coverage figures of get_server_info against the tables              *)
(***************************************************************************)

RECURSIVE EntryCount(_)
\* the number of entries under all the keys of a two-level table
EntryCount(table) ==
  IF Len(table) = 0 THEN 0 ELSE Len(table[1].v) + EntryCount(Tail(table))

\* the end of the run of digits that starts at position i of s
DigitRunEnd(s, i) ==
  CHOOSE j \in i..Len(s) :
    /\ \A h \in i..j : IsDigit(CharAt(s, h))
    /\ j = Len(s) \/ ~IsDigit(CharAt(s, j + 1))

\* the number written at position i of s
FigureAt(s, i) == DigitsValue(SubSeq(s, i, DigitRunEnd(s, i)), 0)

\* the number a coverage text starts with
LeadingFigure(s) == FigureAt(s, 1)

\* TRUE where the leading number is followed by "+"
AtLeastFigure(s) == CharAt(s, DigitRunEnd(s, 1) + 1) = "+"

\* the number written after the word "across"
AcrossFigure(s) ==
  FigureAt(s, (CHOOSE i \in 1..Len(s) : SubSeq(s, i, i + 6) = "across ") + 7)

\* a count agrees with a coverage text: more than the figure where the text
\* says "+", equal to it otherwise
AgreesWith(count, s) ==
  IF AtLeastFigure(s) THEN count > LeadingFigure(s) ELSE count = LeadingFigure(s)

StylesFigureAgrees(coverage, tables) ==
  /\ AgreesWith(EntryCount(tables.ARRANGEMENT_STYLES), coverage.arrangement_styles)
  /\ Len(tables.ARRANGEMENT_STYLES) = AcrossFigure(coverage.arrangement_styles)

FlowersFigureAgrees(coverage, tables) ==
  /\ AgreesWith(EntryCount(tables.FLOWERS_BY_ROLE), coverage.flowers)
  /\ {tables.FLOWERS_BY_ROLE[i].k : i \in 1..Len(tables.FLOWERS_BY_ROLE)} = FlowerRoles
  /\ Len(tables.FLOWERS_BY_ROLE) = Cardinality(FlowerRoles)

FoliageFigureAgrees(coverage, tables) ==
  /\ AgreesWith(EntryCount(tables.FOLIAGE_TYPES), coverage.foliage)
  /\ Len(tables.FOLIAGE_TYPES) = AcrossFigure(coverage.foliage)

PalettesFigureAgrees(coverage, tables) ==
  AgreesWith(Len(tables.COLOR_PALETTES), coverage.color_palettes)

TechniquesFigureAgrees(coverage, tables) ==
  AgreesWith(Len(tables.STRUCTURAL_TECHNIQUES), coverage.structural_techniques)

TraditionsFigureAgrees(coverage, tables) ==
  AgreesWith(Len(tables.CULTURAL_TRADITIONS), coverage.cultural_traditions)

InfoReturned(slot) == op[slot] = "get_server_info" /\ result[slot] # Pending

\* C22: the taxonomy_coverage figures that get_server_info returns agree with
\* the tables the process holds: the number of arrangement styles and of their
\* traditions, more flowers than the "20+" in the four roles, more foliage
\* types than the "10+" in their categories, the number of color palettes, of
\* structural technique categories and of cultural traditions.
C22_CoverageAgrees ==
  \A slot \in ServerSlots :
    InfoReturned(slot) =>
      LET coverage == result[slot].value.taxonomy_coverage
      IN /\ StylesFigureAgrees(coverage, locals.tables)
         /\ FlowersFigureAgrees(coverage, locals.tables)
         /\ FoliageFigureAgrees(coverage, locals.tables)
         /\ PalettesFigureAgrees(coverage, locals.tables)
         /\ TechniquesFigureAgrees(coverage, locals.tables)
         /\ TraditionsFigureAgrees(coverage, locals.tables)

(***************************************************************************)
(* map_structure: the movement technique                                   *)
(***************************************************************************)

\* the movement entry the claim names for a style type
MovementFor(type) ==
  CASE type = "cascade" -> "cascade_fall"
    [] type = "vertical" -> "vertical_lift"
    [] type = "horizontal" -> "horizontal_sweep"
    [] OTHER -> "spiral_rotation"

\* C23: the movement technique depends on the style type alone: cascade gives
\* cascade_fall, vertical gives vertical_lift, horizontal gives
\* horizontal_sweep, and every other type (every ikebana and contemporary
\* type, a type no table has, no type at all) gives spiral_rotation, whatever
\* the category, the balance and the colors; radiation is never the movement.
C23_MovementByType ==
  StructureDone =>
    /\ result.value.movement = TechniqueNamed("movement", MovementFor(TypeOf(args.style)))
    /\ result.value.movement # TechniqueNamed("movement", "radiation")
    /\ (CategoryOf(args.style) \in {"ikebana", "contemporary"}
          /\ TypeOf(args.style) \in TypesOf(CategoryOf(args.style)))
         => result.value.movement.description = "Circular flow around center"

\* the cascade style of the table got cascade_fall
C23_Witness ==
  /\ StructureDone
  /\ args.style = StyleEntry("western_classical", "cascade")
  /\ result.value.movement = TechniqueNamed("movement", "cascade_fall")
  /\ result.value.movement.description # "Circular flow around center"

(***************************************************************************)
(* generate_floral_workflow against enhance_floral_prompt                  *)
(***************************************************************************)

\* the text of the negative prompt, as the tool's source spells it
NegativePromptText ==
  "wilted, dead, brown, artificial, plastic, fake flowers, low quality, blurry, distorted, "
  \o "malformed flowers, ugly arrangement, chaotic, messy, cluttered"

\* C24: for every intent and every well-formed size, generate_floral_workflow
\* returns, its positive_prompt is the enhanced_prompt that
\* enhance_floral_prompt returns for the same intent with the hints at their
\* defaults ("any", "general", "harmonious"), node "2" carries the positive
\* prompt, node "3" carries the returned negative prompt, and the negative
\* prompt is one fixed text, whatever the call.
C24_WorkflowMatchesEnhance ==
  (GenerateDone /\ args.output_size \in WellFormedSizes) =>
    /\ result.status = "ok"
    /\ result.value.positive_prompt =
         enhance_floral_prompt(args.user_intent, "any", "general", "harmonious")
           .value.enhanced_prompt
    /\ result.value.workflow["2"].inputs.text = result.value.positive_prompt
    /\ result.value.workflow["3"].inputs.text = result.value.negative_prompt
    /\ result.value.negative_prompt = NegativePromptText
    /\ result.value.positive_prompt # result.value.negative_prompt

\* a call with a recognized intent returned a workflow whose node "2" names
\* the detected flower
C24_Witness ==
  /\ GenerateDone
  /\ args.user_intent = "roses winter"
  /\ args.output_size \in WellFormedSizes
  /\ result.status = "ok"
  /\ StrIn("featuring roses as focal flowers", result.value.workflow["2"].inputs.text)
  /\ StrIn("wilted", result.value.workflow["3"].inputs.text)

(***************************************************************************)
(* Texture flowers and the formatted sentence                              *)
(***************************************************************************)

\* the names of the texture flowers of the table, underscores as spaces
TextureNames ==
  {StrReplace(Get(FLOWERS_BY_ROLE, "texture")[i].k, "_", " ") :
     i \in 1..Len(Get(FLOWERS_BY_ROLE, "texture"))}

\* texture lists to put in place of the one a mapping result has
TextureLists ==
  {<<>>,
   <<FlowerEntry("thistle", "texture", "thistle")>>,
   <<FlowerEntry("ranunculus", "texture", "ranunculus")>>,
   <<FlowerEntry("thistle", "texture", "thistle"), FlowerEntry("protea", "texture", "protea"),
     FlowerEntry("scabiosa", "texture", "scabiosa"),
     FlowerEntry("ranunculus", "texture", "ranunculus")>>}

\* the call has its mapping result and has not built the workflow yet
GenerateMapped ==
  /\ op = "generate_floral_workflow"
  /\ locals # NoLocals
  /\ "workflow" \notin DOMAIN locals
  /\ result = Pending

\* C25: the formatted sentence does not depend on the texture flowers: a
\* mapping result with any other texture list gives the same sentence; the
\* texture flowers of the mapping result are in the flowers field that
\* enhance_floral_prompt returns for the intent and in metadata.all_flowers,
\* and no texture flower of the table is named in enhanced_prompt or in the
\* workflow's positive prompt.
C25_TextureNotInSentence ==
  /\ GenerateMapped =>
       LET mapped == locals.mapped
           enhanced ==
             enhance_floral_prompt(args.user_intent, "any", "general", "harmonious").value
       IN /\ \A list \in TextureLists :
               format_prompt_enhancement([mapped EXCEPT !.flowers.texture = list])
                 = locals.positive_prompt
          /\ \A name \in TextureNames : ~StrIn(name, enhanced.enhanced_prompt)
          /\ enhanced.flowers.texture = mapped.flowers.texture
  /\ (GenerateDone /\ result.status = "ok") =>
       LET texture == locals.mapped.flowers.texture
       IN /\ \A name \in TextureNames : ~StrIn(name, result.value.positive_prompt)
          /\ \A i \in 1..Len(texture) :
               \E j \in 1..Len(result.value.metadata.all_flowers) :
                 result.value.metadata.all_flowers[j] = texture[i].name

\* the romantic fallback supplied ranunculus: it is in all_flowers and not in
\* the positive prompt, which names the fallback's focal flower
C25_Witness ==
  /\ GenerateDone
  /\ args.user_intent = "romantic waterfall"
  /\ result.status = "ok"
  /\ result.value.metadata.all_flowers = <<"roses", "ranunculus">>
  /\ StrIn("featuring roses as focal flowers", result.value.positive_prompt)
  /\ ~StrIn("ranunculus", result.value.positive_prompt)

(***************************************************************************)
(* The keyword "fall" inside "waterfall"                                   *)
(***************************************************************************)

\* the text names no palette (so neither "spring" nor "summer", which are
\* palette names and the season keywords tried before "fall")
NoPaletteNamed(low) ==
  /\ \A name \in PaletteNames : ~StrIn(name, low)
  /\ ~StrIn("spring", low)
  /\ ~StrIn("summer", low)

\* C26: an intent that contains "waterfall" and no palette name, "spring" or
\* "summer" gets the autumn palette, whatever color_preference and occasion
\* are; so whenever such an intent selects the cascade style through its
\* "waterfall" trigger, the palette that goes with it is autumn.
C26_WaterfallIsAutumn ==
  ColorsReturned =>
    LET low == StrLower(args.user_intent)
    IN (StrIn("waterfall", low) /\ NoPaletteNamed(low)) =>
         /\ result.value = PaletteEntry("autumn")
         /\ result.value.palette = "autumn"
         /\ \A preference \in StylePreferences :
              detect_arrangement_style(low, preference).type = "cascade"
                => result.value.palette = "autumn"

\* "waterfall" with a mood keyword, a valid preference and the wedding
\* occasion: the palette is autumn and the style is cascade
C26_Witness ==
  /\ ColorsReturned
  /\ args.user_intent = "wedding waterfall"
  /\ args.color_scheme = "romantic"
  /\ args.occasion = "wedding"
  /\ result.value.palette = "autumn"
  /\ detect_arrangement_style(StrLower(args.user_intent), "any").type = "cascade"

(***************************************************************************)
(* Several palette names in one intent                                     *)
(***************************************************************************)

\* the palette names in the order the claim lists them
PaletteOrderAsClaimed ==
  <<"monochromatic", "analogous", "complementary", "triadic", "romantic", "elegant",
    "vibrant", "spring", "summer", "autumn", "winter">>

MoodPaletteNames == {"romantic", "elegant", "vibrant"}

SeasonPaletteNames == {"spring", "summer", "autumn", "winter"}

\* the positions, in the claimed order, of the palette names the text contains
NamedPositions(low) ==
  {i \in 1..Len(PaletteOrderAsClaimed) : StrIn(PaletteOrderAsClaimed[i], low)}

\* the first position at which a phrase occurs in a text that contains it
FirstAt(phrase, low) ==
  CHOOSE i \in 1..Len(low) :
    /\ SubSeq(low, i, i + Len(phrase) - 1) = phrase
    /\ \A h \in 1..(i - 1) : SubSeq(low, h, h + Len(phrase) - 1) # phrase

\* C27: the palette table lists its names in the claimed order; when the text
\* contains palette names, the result is the one listed first in the table,
\* wherever it stands in the text, so a mood palette name beats a season name
\* of the same text; and when the season rule decides the result (no palette
\* name in the text, a season keyword in it) the keyword is "fall" and the
\* palette autumn.
C27_TableOrderWins ==
  ColorsReturned =>
    LET low == StrLower(args.user_intent)
        named == NamedPositions(low)
    IN /\ Keys(COLOR_PALETTES) = PaletteOrderAsClaimed
       /\ named # {} =>
            /\ \E i \in named :
                 /\ \A j \in named : i <= j
                 /\ result.value = PaletteEntry(PaletteOrderAsClaimed[i])
            /\ (\E i, j \in named : /\ PaletteOrderAsClaimed[i] \in MoodPaletteNames
                                    /\ PaletteOrderAsClaimed[j] \in SeasonPaletteNames)
                 => result.value.palette \notin SeasonPaletteNames
       /\ (named = {} /\ AnyKeywordRule(SeasonRules, low)) =>
            /\ StrIn("fall", low)
            /\ result.value.palette = "autumn"

\* two palette names, the season first in the text: the mood palette is
\* returned, and a valid preference does not matter
C27_Witness ==
  /\ ColorsReturned
  /\ args.user_intent = "winter romantic"
  /\ args.color_scheme = "winter"
  /\ FirstAt("winter", args.user_intent) < FirstAt("romantic", args.user_intent)
  /\ result.value.palette = "romantic"

(***************************************************************************)
(* The style types the intent text can select                              *)
(***************************************************************************)

\* the types the claim says the text alone can select
TextSelectable ==
  {"moribana", "nageire", "cascade", "dome", "minimalist", "garden_style", "crescent"}

\* the types the claim says only style_preference can select
PreferenceOnly ==
  {"rikka", "hogarth", "triangular", "vertical", "horizontal", "structural", "parallel"}

\* one text for each selectable type
SelectingTexts ==
  {"japanese moribana", "ikebana", "waterfall", "centerpiece", "modern", "loose", "curve"}

\* C28: with style_preference "any" the returned type is one of moribana,
\* nageire, cascade, dome, minimalist, garden_style and crescent, and each of
\* the seven is returned for some text; the seven other types of the table
\* (rikka, hogarth, triangular, vertical, horizontal, structural, parallel)
\* are returned only for a text without trigger phrase and a style_preference
\* that names the type; and a text with "ikebana" or "japanese" and without
\* "moribana" gives nageire, also when the text or the preference says rikka.
C28_SelectableTypes ==
  StyleReturned =>
    LET low == StrLower(args.user_intent)
        type == result.value.type
    IN /\ TextSelectable \cup PreferenceOnly
            = UNION {TypesOf(ARRANGEMENT_STYLES[i].k) : i \in 1..Len(ARRANGEMENT_STYLES)}
       /\ TextSelectable \cap PreferenceOnly = {}
       /\ args.style_preference = "any" => type \in TextSelectable
       /\ {detect_arrangement_style(text, "any").type : text \in SelectingTexts}
            = TextSelectable
       /\ type \in PreferenceOnly =>
            /\ ~SomeRuleMatches(StyleRulesAmended, low)
            /\ args.style_preference = type
       /\ ((StrIn("ikebana", low) \/ StrIn("japanese", low)) /\ ~StrIn("moribana", low)) =>
            result.value = StyleEntry("ikebana", "nageire")

\* the text names rikka and the preference is rikka, yet nageire is returned
C28_Witness ==
  /\ StyleReturned
  /\ args.user_intent = "ikebana rikka"
  /\ args.style_preference = "rikka"
  /\ result.value.category = "ikebana"
  /\ result.value.type = "nageire"

(***************************************************************************)
(* The workflow graph: references and dependencies                         *)
(***************************************************************************)

\* an input value is a reference where it is a list (the other inputs are
\* strings and numbers): its printed form opens a tuple
IsReference(value) ==
  LET printed == ToString(value)
  IN Len(printed) >= 2 /\ SubSeq(printed, 1, 2) = "<<"

\* the references among the inputs of a node
ReferencesOf(g, id) ==
  {g[id].inputs[f] : f \in {h \in DOMAIN g[id].inputs : IsReference(g[id].inputs[h])}}

\* the number a node id spells
NodeNumber(id) == PyInt(id).n

\* the nodes of g that a node refers to
DirectDependencies(g, id) == {r[1] : r \in ReferencesOf(g, id)} \cap DOMAIN g

RECURSIVE DependenciesWithin(_, _, _)
\* the nodes reached from a set of nodes by following at most n references
DependenciesWithin(g, nodes, n) ==
  IF n = 0 THEN nodes
  ELSE DependenciesWithin(g, nodes \cup UNION {DirectDependencies(g, id) : id \in nodes}, n - 1)

\* every node that a node depends on, directly or through other nodes
Dependencies(g, id) ==
  DependenciesWithin(g, DirectDependencies(g, id), Cardinality(DOMAIN g))

\* C29: every graph that build_comfyui_workflow returns has the seven nodes;
\* each reference is a pair of the id of one of them, lower than the id of the
\* node that holds the reference, and a slot index in 0..2; every node but
\* "7" is referred to by a node with a higher id; no node depends on itself;
\* and node "7" depends, directly or through other nodes, on all six others.
C29_WellFormedAcyclic ==
  (WorkflowDone /\ result.status = "ok") =>
    LET g == result.value
    IN /\ DOMAIN g = NodeIds
       /\ \A id \in DOMAIN g :
            \A r \in ReferencesOf(g, id) :
              /\ Len(r) = 2
              /\ r[1] \in DOMAIN g
              /\ NodeNumber(r[1]) < NodeNumber(id)
              /\ r[2] \in 0..2
       /\ \A id \in DOMAIN g \ {"7"} :
            \E later \in DOMAIN g :
              /\ NodeNumber(later) > NodeNumber(id)
              /\ id \in DirectDependencies(g, later)
       /\ \A id \in DOMAIN g : id \notin Dependencies(g, id)
       /\ Dependencies(g, "7") = DOMAIN g \ {"7"}

\* a returned graph in which node "7" reaches node "4" only through "6" and "5"
C29_Witness ==
  /\ WorkflowDone
  /\ result.status = "ok"
  /\ args.size = "64x64"
  /\ DirectDependencies(result.value, "7") = {"6"}
  /\ DirectDependencies(result.value, "6") = {"5", "1"}
  /\ "4" \in DirectDependencies(result.value, "5")
  /\ ReferencesOf(result.value, "4") = {}

====
